---- MODULE Spec2Model ----
(***************************************************************************)
(* GUIgen: the step scheduler of core/test_engine.py (TestEngine) together *)
(* with the analyzer of core/visual_llm.py (VisualLLMAnalyzer), the click  *)
(* grounding and the loop guard.  The device, the model and the widget     *)
(* detector are the environment: every call to them returns one of the     *)
(* outcomes their code can produce.                                        *)
(***************************************************************************)
EXTENDS Integers, Sequences, FiniteSets, TLC

\* ---------------------------------------------------------------- bounds
\* Length of the element lists on which grounding is called on its own.
MaxElements == 2

\* Length of the click histories on which _is_repeat_click is called on its own.
MaxHistory == 3

\* Number of entries of test_scenario.steps in the loaded specifications.
MaxSteps == 2
\* config["test_engine"]["step_timeout"], in seconds.
StepTimeout == 3
\* config["test_engine"]["screenshot_interval"], in seconds.
ScreenshotInterval == 1

\* ------------------------------------------------------ program constants
max_retry_count == 3
max_click_history == 5
repeat_click_threshold == 2
tolerance == 5
max_refine_attempts == 2
default_max_steps == 10
retry_sleep == 1
default_wait_time == 2
small_area_limit == 50000
bottom_region_top == 1800
large_area_limit == 500000
upper_half_limit == 1000
medium_area_min == 1000
max_offset == 20

\* ------------------------------------------------------------------ text
\* A text is a sequence of characters; a character is a one-symbol string
\* (a code point outside ASCII is written by its code, "U641C", and so is the
\* backquote, "U0060").
Min(a, b) == IF a < b THEN a ELSE b
Max(a, b) == IF a > b THEN a ELSE b
Abs(a) == IF a < 0 THEN -a ELSE a

\* The ASCII letters that str.lower() changes, and what it makes of them.
Letters ==
  [ upper |->
      <<"A", "B", "C", "D", "E", "F", "G", "H", "I", "J", "K", "L", "M",
        "N", "O", "P", "Q", "R", "S", "T", "U", "V", "W", "X", "Y", "Z">>,
    lower |->
      <<"a", "b", "c", "d", "e", "f", "g", "h", "i", "j", "k", "l", "m",
        "n", "o", "p", "q", "r", "s", "t", "u", "v", "w", "x", "y", "z">> ]

\* str.lower() on one character.
LowerChar(c) ==
  IF \E i \in 1..Len(Letters.upper) : Letters.upper[i] = c
    THEN Letters.lower[CHOOSE i \in 1..Len(Letters.upper) : Letters.upper[i] = c]
    ELSE c

Lower(s) == [i \in 1..Len(s) |-> LowerChar(s[i])]

IsSpace(c) == c \in {" ", "\n", "\t", "\r"}

RECURSIVE LStrip(_)
LStrip(s) == IF s # <<>> /\ IsSpace(Head(s)) THEN LStrip(Tail(s)) ELSE s

RECURSIVE RStrip(_)
RStrip(s) ==
  IF s # <<>> /\ IsSpace(s[Len(s)]) THEN RStrip(SubSeq(s, 1, Len(s) - 1)) ELSE s

\* str.strip()
Strip(s) == RStrip(LStrip(s))

\* Python's `sub in s`.
Contains(sub, s) ==
  \E i \in 0..(Len(s) - Len(sub)) : SubSeq(s, i + 1, i + Len(sub)) = sub

\* str.startswith
StartsWith(s, prefix) ==
  Len(s) >= Len(prefix) /\ SubSeq(s, 1, Len(prefix)) = prefix

\* str.replace(old, new): the occurrences of old, left to right, not
\* overlapping.
RECURSIVE Replace(_, _, _)
Replace(s, old, new) ==
  LET at(i) == SubSeq(s, i, i + Len(old) - 1) = old
      starts == {i \in 1..(Len(s) - Len(old) + 1) : at(i)}
      first == CHOOSE i \in starts : \A j \in starts : i <= j
  IN IF starts = {} THEN s
     ELSE SubSeq(s, 1, first - 1) \o new
            \o Replace(SubSeq(s, first + Len(old), Len(s)), old, new)

\* str.strip(chars) for one character.
RECURSIVE StripChar(_, _)
StripChar(s, c) ==
  IF s # <<>> /\ Head(s) = c THEN StripChar(Tail(s), c)
  ELSE IF s # <<>> /\ s[Len(s)] = c THEN StripChar(SubSeq(s, 1, Len(s) - 1), c)
  ELSE s

\* str.find(c) + 1: the index of the first c in s, 0 when there is none.
Find(s, c) ==
  IF \E i \in 1..Len(s) : s[i] = c
    THEN CHOOSE i \in 1..Len(s) : s[i] = c /\ \A j \in 1..(i - 1) : s[j] # c
    ELSE 0

\* str.split('\n')
RECURSIVE SplitLines(_)
SplitLines(s) ==
  IF Find(s, "\n") = 0 THEN <<s>>
  ELSE <<SubSeq(s, 1, Find(s, "\n") - 1)>>
         \o SplitLines(SubSeq(s, Find(s, "\n") + 1, Len(s)))

\* '\n'.join(lines)
RECURSIVE JoinLines(_)
JoinLines(lines) ==
  IF lines = <<>> THEN <<>>
  ELSE IF Len(lines) = 1 THEN lines[1]
  ELSE lines[1] \o <<"\n">> \o JoinLines(Tail(lines))

\* search_keywords of _find_best_matching_element.
search_keywords ==
  << <<"U641C", "U7D22">>,
     <<"s", "e", "a", "r", "c", "h">>,
     <<"U653E", "U5927", "U955C">>,
     <<"m", "a", "g", "n", "i", "f", "y">>,
     <<"U67E5", "U627E">>,
     <<"f", "i", "n", "d">> >>

\* search_keywords of _find_alternative_element.
alt_search_keywords ==
  search_keywords \o
  << <<"U8F93", "U5165">>,
     <<"i", "n", "p", "u", "t">>,
     <<"U6587", "U672C", "U6846">>,
     <<"t", "e", "x", "t", "b", "o", "x">> >>

AnyKeywordIn(kws, s) == \E k \in 1..Len(kws) : Contains(kws[k], s)

\* -------------------------------------------------------------- elements
\* int(round((lo + hi) / 2)) of Element.from_pixel_bbox: round() takes a
\* half to the even integer.
RoundedMidpoint(lo, hi) ==
  IF (lo + hi) % 2 = 0 THEN (lo + hi) \div 2
  ELSE IF ((lo + hi - 1) \div 2) % 2 = 0 THEN (lo + hi - 1) \div 2
  ELSE (lo + hi + 1) \div 2

\* An element of the detector's list.
MkElement(x1, y1, x2, y2, txt) ==
  [column_min |-> x1, row_min |-> y1, column_max |-> x2, row_max |-> y2,
   text_content |-> txt]

\* "No element": the None of the grounding functions.
NoElement == MkElement(-1, -1, -1, -1, <<"N", "o", "n", "e">>)

\* _area of _find_best_matching_element (and the inline area of priority 3).
Area(el) ==
  Max(0, el.column_max - el.column_min) * Max(0, el.row_max - el.row_min)

\* A centre that is the left edge of the box.
CenterX_edge(el) == el.column_min

\* A vertical centre without the halving.
CenterY_notHalved(el) == el.row_min + el.row_max

\* Integer midpoint, Python's // on non-negative operands.
CenterX(el) == (el.column_min + el.column_max) \div 2
CenterY(el) == (el.row_min + el.row_max) \div 2

\* Index of the first TRUE of a sequence of booleans (the first element a
\* `for` loop returns on), 0 when none.
FirstIndex(hits) ==
  IF \E i \in 1..Len(hits) : hits[i]
    THEN CHOOSE i \in 1..Len(hits) :
           hits[i] /\ \A j \in 1..(i - 1) : ~hits[j]
    ELSE 0

\* list.sort(key=area): a stable sort, as an insertion into a sorted prefix.
RECURSIVE InsertByArea(_, _)
InsertByArea(el, sorted) ==
  IF sorted = <<>> THEN <<el>>
  ELSE IF Area(el) < Area(Head(sorted)) THEN <<el>> \o sorted
  ELSE <<Head(sorted)>> \o InsertByArea(el, Tail(sorted))

RECURSIVE SortByArea(_)
SortByArea(els) ==
  IF els = <<>> THEN <<>>
  ELSE InsertByArea(els[Len(els)], SortByArea(SubSeq(els, 1, Len(els) - 1)))

\* The candidates of priority 3: small elements of the bottom region.
RECURSIVE SmallBottomElements(_)
SmallBottomElements(els) ==
  IF els = <<>> THEN <<>>
  ELSE (IF Area(Head(els)) < small_area_limit /\ Head(els).row_min > bottom_region_top
          THEN <<Head(els)>> ELSE <<>>) \o SmallBottomElements(Tail(els))

\* max(elements, key=_area): the first element of maximum area.
MaxAreaElement(els) ==
  els[CHOOSE i \in 1..Len(els) :
        /\ \A j \in 1..Len(els) : Area(els[j]) <= Area(els[i])
        /\ \A j \in 1..(i - 1) : Area(els[j]) < Area(els[i])]

\* A grounding without the last resort of the largest element.
FindBestMatchingElement_noFallback(elements, description) ==
  LET desc == Strip(Lower(description))
      hits == [i \in 1..Len(elements) |->
                 Lower(elements[i].text_content) # <<>>
                   /\ Contains(desc, Lower(elements[i].text_content))]
  IN IF desc # <<>> /\ FirstIndex(hits) # 0
       THEN elements[FirstIndex(hits)] ELSE NoElement

\* A grounding that tries the search keywords before the description.
FindBestMatchingElement_keywordFirst(elements, description) ==
  LET desc == Strip(Lower(description))
      textHits == [i \in 1..Len(elements) |->
                     Lower(elements[i].text_content) # <<>>
                       /\ Contains(desc, Lower(elements[i].text_content))]
      keywordHits == [i \in 1..Len(elements) |->
                        Lower(elements[i].text_content) # <<>>
                          /\ AnyKeywordIn(search_keywords, Lower(elements[i].text_content))]
      searchIntent == AnyKeywordIn(search_keywords, desc)
      i1 == IF desc # <<>> THEN FirstIndex(textHits) ELSE 0
      i2 == IF searchIntent THEN FirstIndex(keywordHits) ELSE 0
      candidates == IF searchIntent
                      THEN SortByArea(SmallBottomElements(elements)) ELSE <<>>
  IN IF elements = <<>> THEN NoElement
     ELSE IF i2 # 0 THEN elements[i2]
     ELSE IF i1 # 0 THEN elements[i1]
     ELSE IF candidates # <<>>
       THEN (IF Len(candidates) >= 3
               THEN candidates[(Len(candidates) \div 2) + 1]
               ELSE candidates[1])
     ELSE MaxAreaElement(elements)

\* TestEngine._find_best_matching_element
FindBestMatchingElement(elements, description) ==
  LET desc == Strip(Lower(description))
      TextMatch(el) ==
        Lower(el.text_content) # <<>> /\ Contains(desc, Lower(el.text_content))
      KeywordMatch(el) ==
        Lower(el.text_content) # <<>>
          /\ AnyKeywordIn(search_keywords, Lower(el.text_content))
      searchIntent == AnyKeywordIn(search_keywords, desc)
      textHits == [i \in 1..Len(elements) |-> TextMatch(elements[i])]
      keywordHits == [i \in 1..Len(elements) |-> KeywordMatch(elements[i])]
      i1 == IF desc # <<>> THEN FirstIndex(textHits) ELSE 0
      i2 == IF searchIntent THEN FirstIndex(keywordHits) ELSE 0
      candidates == IF searchIntent
                      THEN SortByArea(SmallBottomElements(elements)) ELSE <<>>
  IN IF elements = <<>> THEN NoElement
     ELSE IF i1 # 0 THEN elements[i1]
     ELSE IF i2 # 0 THEN elements[i2]
     ELSE IF candidates # <<>>
       THEN (IF Len(candidates) >= 3
               THEN candidates[(Len(candidates) \div 2) + 1]
               ELSE candidates[1])
     ELSE MaxAreaElement(elements)

\* TestEngine._is_repeat_click
IsRepeatClick(history, x, y) ==
  IF Len(history) < repeat_click_threshold THEN FALSE
  ELSE \A i \in (Len(history) - repeat_click_threshold + 1)..Len(history) :
         ~(Abs(x - history[i][1]) > tolerance \/ Abs(y - history[i][2]) > tolerance)

\* TestEngine._is_interface_unchanged; hash 0 is None.
IsInterfaceUnchanged(lastHash, currentHash) ==
  IF lastHash = 0 THEN FALSE ELSE currentHash = lastHash

\* The score _find_alternative_element gives one element.
RECURSIVE KeywordScore(_, _)
KeywordScore(kws, txt) ==
  IF kws = <<>> THEN 0
  ELSE (IF Contains(Head(kws), txt) THEN 10 ELSE 0) + KeywordScore(Tail(kws), txt)

AltArea(el) == (el.column_max - el.column_min) * (el.row_max - el.row_min)

AltScore(el) ==
  KeywordScore(alt_search_keywords, Lower(el.text_content))
    + (IF CenterY(el) < upper_half_limit THEN 5 ELSE 0)
    + (IF medium_area_min < AltArea(el) /\ AltArea(el) < small_area_limit THEN 3 ELSE 0)

SameBounds(a, b) ==
  /\ a.column_min = b.column_min /\ a.row_min = b.row_min
  /\ a.column_max = b.column_max /\ a.row_max = b.row_max

AltEligible(el, current_target) ==
  /\ ~SameBounds(el, current_target)
  /\ ~(AltArea(el) > large_area_limit)
  /\ AltScore(el) > 0

\* An alternative search that takes the last element of maximum score (an
\* ascending sort read from its end).
FindAlternativeElement_lastOfTies(elements, current_target) ==
  IF \E i \in 1..Len(elements) : AltEligible(elements[i], current_target)
    THEN elements[CHOOSE i \in 1..Len(elements) :
           /\ AltEligible(elements[i], current_target)
           /\ \A j \in 1..Len(elements) :
                AltEligible(elements[j], current_target)
                  => /\ AltScore(elements[j]) <= AltScore(elements[i])
                     /\ (j > i => AltScore(elements[j]) < AltScore(elements[i]))]
    ELSE NoElement

\* TestEngine._find_alternative_element: the stable descending sort puts the
\* first element of maximum score in front.
FindAlternativeElement(elements, current_target) ==
  IF \E i \in 1..Len(elements) : AltEligible(elements[i], current_target)
    THEN elements[CHOOSE i \in 1..Len(elements) :
           /\ AltEligible(elements[i], current_target)
           /\ \A j \in 1..Len(elements) :
                AltEligible(elements[j], current_target)
                  => /\ AltScore(elements[j]) <= AltScore(elements[i])
                     /\ (j < i => AltScore(elements[j]) < AltScore(elements[i]))]
    ELSE NoElement

\* An offset without the cap of 20 pixels.
OffsetX_uncapped(target) == (target.column_max - target.column_min) \div 4

\* The offsets of TestEngine._adjust_coordinates.
OffsetX(target) == Min((target.column_max - target.column_min) \div 4, max_offset)
OffsetY(target) == Min((target.row_max - target.row_min) \div 4, max_offset)

\* TestEngine._adjust_coordinates, rx and ry being the two random.randint draws.
AdjustCoordinates(x, y, target, rx, ry) ==
  << Max(target.column_min, Min(x + rx, target.column_max)),
     Max(target.row_min, Min(y + ry, target.row_max)) >>

\* A history that never evicts.
RecordClick_unbounded(history, x, y) == Append(history, <<x, y>>)

\* TestEngine._record_click
RecordClick(history, x, y) ==
  LET appended == Append(history, <<x, y>>)
  IN IF Len(appended) > max_click_history THEN Tail(appended) ELSE appended

\* --------------------------------------------------------- action records
\* A wait_time key that is absent from a record.
Absent == -1000

\* The description of the keyword fallback of _parse_action_response.
fallback_description == <<"p", "a", "r", "s", "e", " ", "f", "a", "i", "l", "e", "d">>

MkAction(act, desc, txt, wt, ok, why) ==
  [action_type |-> act, description |-> desc, text |-> txt, wait_time |-> wt,
   success |-> ok, reasoning |-> why]

\* `"action": None` of a StepRecord.
NoAction == MkAction("none", <<>>, <<>>, Absent, FALSE, "")

\* The record analyze_screenshot_for_action returns from its except branch.
ErrorAction == MkAction("error", <<>>, <<>>, Absent, FALSE, "")

\* A model reply: either text that parses to a JSON object (kind "json";
\* action_type "missing" when the object has none of the keys action_type,
\* action, type) or text without a JSON object (kind "prose"), of which only
\* the keywords of the fallback table that occur in it matter.
MkReply(kind, act, desc, txt, wt, words) ==
  [kind |-> kind, action_type |-> act, description |-> desc, text |-> txt,
   wait_time |-> wt, words |-> words]

\* VisualLLMAnalyzer._parse_action_response on a reply.
ParseActionResponse(r) ==
  IF r.kind = "json"
    THEN IF r.action_type = "input" /\ r.text = <<>>
           THEN MkAction("wait", r.description, r.text,
                         IF r.wait_time = Absent THEN default_wait_time ELSE r.wait_time,
                         FALSE, "input_text_missing")
           ELSE MkAction(r.action_type, r.description, r.text, r.wait_time, TRUE, "")
    ELSE LET act == IF "click" \in r.words THEN "click"
                    ELSE IF "input" \in r.words \/ "type" \in r.words THEN "input"
                    ELSE IF "swipe" \in r.words \/ "scroll" \in r.words THEN "swipe"
                    ELSE IF "back" \in r.words THEN "back"
                    ELSE IF "complete" \in r.words \/ "finish" \in r.words THEN "complete"
                    ELSE "wait"
         IN MkAction(act, fallback_description, <<>>, default_wait_time, FALSE,
                     IF act = "click" THEN "keyword_click" ELSE "format_incorrect")

\* ------------------------------------------------------------- JSON texts
\* A JSON value: a string (t = "s", v its characters), an integer (t = "n",
\* v its digits) or one of true, false and null (t = "k", v the word).
JStr(s) == [t |-> "s", v |-> s]
JNum(digits) == [t |-> "n", v |-> digits]
JWord(w) == [t |-> "k", v |-> w]
JTrue == JWord(<<"t", "r", "u", "e">>)
JFalse == JWord(<<"f", "a", "l", "s", "e">>)
JNull == JWord(<<"n", "u", "l", "l">>)

\* None, as dict.get returns it for a missing key.
PyNone == [t |-> "none", v |-> <<>>]

\* bool(value) of Python.
Truthy(val) ==
  CASE val.t = "s" -> val.v # <<>>
    [] val.t = "n" -> val.v # <<"0">>
    [] val.t = "k" -> val = JTrue
    [] OTHER -> FALSE

\* isinstance(value, str)
IsStr(val) == val.t = "s"

\* A dict: a function from keys (texts) to values.
EmptyDict == [k \in {} |-> PyNone]
Has(d, k) == k \in DOMAIN d
Get(d, k) == IF Has(d, k) THEN d[k] ELSE PyNone
GetOr(d, k, default) == IF Has(d, k) THEN d[k] ELSE default
Put(d, k, val) == [x \in (DOMAIN d) \cup {k} |-> IF x = k THEN val ELSE d[x]]
SetDefault(d, k, val) == IF Has(d, k) THEN d ELSE Put(d, k, val)

\* What a parsing step gives: the value read and the text left, or a failure
\* (json.JSONDecodeError).
ParseFail == [ok |-> FALSE, val |-> PyNone, rest |-> <<>>]
Parsed(val, rest) == [ok |-> TRUE, val |-> val, rest |-> rest]

json_whitespace == {" ", "\n", "\t", "\r"}
json_digits == {"0", "1", "2", "3", "4", "5", "6", "7", "8", "9"}

RECURSIVE SkipWs(_)
SkipWs(s) == IF s # <<>> /\ Head(s) \in json_whitespace THEN SkipWs(Tail(s)) ELSE s

\* A JSON string at the head of s: up to the next quote, which no backslash
\* and no control character may precede.
ParseString(s) ==
  LET body == Tail(s)
      close == Find(body, "\"")
  IN IF close = 0 THEN ParseFail
     ELSE IF \E i \in 1..(close - 1) : body[i] \in {"\\", "\n", "\t", "\r"}
       THEN ParseFail
     ELSE Parsed(JStr(SubSeq(body, 1, close - 1)), SubSeq(body, close + 1, Len(body)))

\* The length of the run of digits at the head of s.
RECURSIVE DigitRun(_)
DigitRun(s) ==
  IF s # <<>> /\ Head(s) \in json_digits THEN 1 + DigitRun(Tail(s)) ELSE 0

\* A JSON integer at the head of s.
ParseNumber(s) ==
  LET n == DigitRun(s)
  IN IF n = 0 \/ (n > 1 /\ Head(s) = "0") THEN ParseFail
     ELSE IF n < Len(s) /\ s[n + 1] \in {".", "e", "E"} THEN ParseFail
     ELSE Parsed(JNum(SubSeq(s, 1, n)), SubSeq(s, n + 1, Len(s)))

\* true, false or null at the head of s.
ParseWord(s) ==
  IF StartsWith(s, JTrue.v) THEN Parsed(JTrue, SubSeq(s, 5, Len(s)))
  ELSE IF StartsWith(s, JFalse.v) THEN Parsed(JFalse, SubSeq(s, 6, Len(s)))
  ELSE IF StartsWith(s, JNull.v) THEN Parsed(JNull, SubSeq(s, 5, Len(s)))
  ELSE ParseFail

\* A value of a member: a string, an integer or a word.
ParseValue(s) ==
  IF s = <<>> THEN ParseFail
  ELSE IF Head(s) = "\"" THEN ParseString(s)
  ELSE IF Head(s) \in json_digits THEN ParseNumber(s)
  ELSE IF Head(s) = "-"
    THEN LET n == ParseNumber(Tail(s))
         IN IF n.ok THEN Parsed(JNum(<<"-">> \o n.val.v), n.rest) ELSE ParseFail
  ELSE ParseWord(s)

\* The members of an object from the member at the head of s on, added to
\* acc; a later member replaces an earlier one of the same key.  A closing
\* brace where a member is expected (a trailing comma) is an error.
RECURSIVE ParseMembers(_, _)
ParseMembers(s, acc) ==
  IF s = <<>> \/ Head(s) # "\"" THEN ParseFail
  ELSE
    LET key == ParseString(s)
        colon == SkipWs(key.rest)
        member == ParseValue(SkipWs(Tail(colon)))
        next == SkipWs(member.rest)
    IN IF ~key.ok \/ colon = <<>> \/ Head(colon) # ":" THEN ParseFail
       ELSE IF ~member.ok \/ next = <<>> THEN ParseFail
       ELSE IF Head(next) = "}"
         THEN Parsed(Put(acc, key.val.v, member.val), Tail(next))
       ELSE IF Head(next) = ","
         THEN ParseMembers(SkipWs(Tail(next)), Put(acc, key.val.v, member.val))
       ELSE ParseFail

\* json.loads on a text that begins with "{" and whose members are strings,
\* integers and words: the dict, or a failure.
JsonLoads(text) ==
  LET s == SkipWs(text)
      inner == SkipWs(Tail(s))
      obj == IF inner # <<>> /\ Head(inner) = "}"
               THEN Parsed(EmptyDict, Tail(inner))
               ELSE ParseMembers(inner, EmptyDict)
  IN IF s = <<>> \/ Head(s) # "{" THEN ParseFail
     ELSE IF obj.ok /\ SkipWs(obj.rest) = <<>> THEN obj
     ELSE ParseFail

\* ------------------------------------------------------------ interpreter
\* The keys _parse_action_response reads and writes, and three it never reads.
Key ==
  [ action_type |-> <<"a", "c", "t", "i", "o", "n", "_", "t", "y", "p", "e">>,
    action |-> <<"a", "c", "t", "i", "o", "n">>,
    type |-> <<"t", "y", "p", "e">>,
    description |-> <<"d", "e", "s", "c", "r", "i", "p", "t", "i", "o", "n">>,
    target |-> <<"t", "a", "r", "g", "e", "t">>,
    text |-> <<"t", "e", "x", "t">>,
    reasoning |-> <<"r", "e", "a", "s", "o", "n", "i", "n", "g">>,
    wait_time |-> <<"w", "a", "i", "t", "_", "t", "i", "m", "e">>,
    success |-> <<"s", "u", "c", "c", "e", "s", "s">>,
    x |-> <<"x">>,
    y |-> <<"y">>,
    note |-> <<"n", "o", "t", "e">> ]

\* The action types and keywords of _parse_action_response.
ActionWord ==
  [ click |-> <<"c", "l", "i", "c", "k">>,
    input |-> <<"i", "n", "p", "u", "t">>,
    wait |-> <<"w", "a", "i", "t">>,
    swipe |-> <<"s", "w", "i", "p", "e">>,
    scroll |-> <<"s", "c", "r", "o", "l", "l">>,
    back |-> <<"b", "a", "c", "k">>,
    complete |-> <<"c", "o", "m", "p", "l", "e", "t", "e">>,
    finish |-> <<"f", "i", "n", "i", "s", "h">> ]

\* The code fence markers _parse_action_response removes.
Fence ==
  [ plain |-> <<"U0060", "U0060", "U0060">>,
    json |-> <<"U0060", "U0060", "U0060", "j", "s", "o", "n">> ]

\* The texts _parse_action_response writes into a record.
Message ==
  [ no_input_text |->
      <<"L", "L", "M", "U672A", "U63D0", "U4F9B", "U8F93", "U5165", "U6587",
        "U672C", "UFF0C", "U6682", "U65F6", "U7B49", "U5F85">>,
    parse_failed |->
      <<"L", "L", "M", "U54CD", "U5E94", "U89E3", "U6790", "U5931", "U8D25",
        "UFF0C", "U7B49", "U5F85", "U5904", "U7406">>,
    bad_format |->
      <<"U54CD", "U5E94", "U683C", "U5F0F", "U4E0D", "U6B63", "U786E">>,
    keyword_click |->
      <<"U6839", "U636E", "U5173", "U952E", "U8BCD", "U63A8", "U65AD", "U4E3A",
        "U70B9", "U51FB", "UFF0C", "U4F4D", "U7F6E", "U7531", "U68C0", "U6D4B",
        "U5668", "U51B3", "U5B9A">> ]

\* The field normalisation both parses share (lines 214-235 and 271-295).
NormalizeAction(parsed) ==
  LET aliased ==
        IF Has(parsed, Key.action_type) THEN parsed
        ELSE IF IsStr(Get(parsed, Key.action))
          THEN Put(parsed, Key.action_type, Get(parsed, Key.action))
        ELSE IF IsStr(Get(parsed, Key.type))
          THEN Put(parsed, Key.action_type, Get(parsed, Key.type))
        ELSE parsed
      described ==
        IF ~Truthy(Get(aliased, Key.description)) /\ IsStr(Get(aliased, Key.target))
          THEN Put(aliased, Key.description, Get(aliased, Key.target))
          ELSE aliased
      act == Get(described, Key.action_type)
      checked ==
        IF act = JStr(ActionWord.click)
          THEN SetDefault(described, Key.description,
                          GetOr(described, Key.description, JStr(<<>>)))
        ELSE IF act = JStr(ActionWord.input) /\ ~Truthy(Get(described, Key.text))
          THEN Put(Put(Put(Put(described, Key.action_type, JStr(ActionWord.wait)),
                           Key.reasoning, JStr(Message.no_input_text)),
                       Key.wait_time, GetOr(described, Key.wait_time, JNum(<<"2">>))),
                   Key.success, JFalse)
        ELSE described
  IN SetDefault(SetDefault(checked, Key.description, JStr(<<>>)), Key.success, JTrue)

\* The index in text of the brace that closes the one at index i, 0 when
\* there is none; depth counts the braces open before i.
ClosingBrace(text, i, depth) ==
  LET count(c, j) == Cardinality({k \in i..j : text[k] = c})
      closing == {j \in i..Len(text) :
                    text[j] = "}" /\ depth + count("{", j) = count("}", j)}
  IN IF closing = {} THEN 0
     ELSE CHOOSE j \in closing : \A k \in closing : j <= k

\* _extract_json: the first substring from a "{" to the brace that balances
\* it, <<>> for None.
ExtractJson(text) ==
  LET start_idx == Find(text, "{")
      close == ClosingBrace(text, start_idx, 0)
  IN IF start_idx = 0 \/ close = 0 THEN <<>> ELSE SubSeq(text, start_idx, close)

\* The lines that are kept: those that do not begin with // once stripped.
RECURSIVE DropCommentLines(_)
DropCommentLines(lines) ==
  IF lines = <<>> THEN <<>>
  ELSE (IF StartsWith(Strip(Head(lines)), <<"/", "/">>) THEN <<>> ELSE <<Head(lines)>>)
         \o DropCommentLines(Tail(lines))

\* The repairs of lines 258-265: single quotes, comment lines, trailing commas.
RepairJson(candidate) ==
  LET quoted == IF Find(candidate, "\"") = 0 /\ Find(candidate, "'") # 0
                  THEN Replace(candidate, <<"'">>, <<"\"">>) ELSE candidate
      uncommented == JoinLines(DropCommentLines(SplitLines(quoted)))
      first == Replace(uncommented, <<",", "\n", "}">>, <<"\n", "}">>)
  IN Replace(first, <<",", " ", "}">>, <<" ", "}">>)

\* raw of lines 203-207: the reply without its code fences.
Unfence(response) ==
  LET stripped == Strip(response)
      ticked == IF StartsWith(stripped, Fence.plain) THEN StripChar(stripped, "U0060")
                ELSE stripped
  IN Strip(Replace(Replace(ticked, Fence.json, <<>>), Fence.plain, <<>>))

\* A keyword fallback that looks for input and type before click.
KeywordFallback_inputFirst(raw) ==
  LET response_lower == Lower(raw)
      base == Put(Put(Put(Put(Put(EmptyDict,
                Key.action_type, JStr(ActionWord.wait)),
                Key.description, JStr(Message.parse_failed)),
                Key.wait_time, JNum(<<"2">>)),
                Key.success, JFalse),
                Key.reasoning, JStr(Message.bad_format))
  IN IF Contains(ActionWord.input, response_lower) \/ Contains(Key.type, response_lower)
       THEN Put(base, Key.action_type, JStr(ActionWord.input))
     ELSE IF Contains(ActionWord.click, response_lower)
       THEN Put(Put(base, Key.action_type, JStr(ActionWord.click)),
                Key.reasoning, JStr(Message.keyword_click))
     ELSE IF Contains(ActionWord.swipe, response_lower) \/ Contains(ActionWord.scroll, response_lower)
       THEN Put(base, Key.action_type, JStr(ActionWord.swipe))
     ELSE IF Contains(ActionWord.back, response_lower)
       THEN Put(base, Key.action_type, JStr(ActionWord.back))
     ELSE IF Contains(ActionWord.complete, response_lower) \/ Contains(ActionWord.finish, response_lower)
       THEN Put(base, Key.action_type, JStr(ActionWord.complete))
     ELSE base

\* The record of the keyword fallback (lines 298-317).
KeywordFallback(raw) ==
  LET response_lower == Lower(raw)
      base == Put(Put(Put(Put(Put(EmptyDict,
                Key.action_type, JStr(ActionWord.wait)),
                Key.description, JStr(Message.parse_failed)),
                Key.wait_time, JNum(<<"2">>)),
                Key.success, JFalse),
                Key.reasoning, JStr(Message.bad_format))
  IN IF Contains(ActionWord.click, response_lower)
       THEN Put(Put(base, Key.action_type, JStr(ActionWord.click)),
                Key.reasoning, JStr(Message.keyword_click))
     ELSE IF Contains(ActionWord.input, response_lower) \/ Contains(Key.type, response_lower)
       THEN Put(base, Key.action_type, JStr(ActionWord.input))
     ELSE IF Contains(ActionWord.swipe, response_lower) \/ Contains(ActionWord.scroll, response_lower)
       THEN Put(base, Key.action_type, JStr(ActionWord.swipe))
     ELSE IF Contains(ActionWord.back, response_lower)
       THEN Put(base, Key.action_type, JStr(ActionWord.back))
     ELSE IF Contains(ActionWord.complete, response_lower) \/ Contains(ActionWord.finish, response_lower)
       THEN Put(base, Key.action_type, JStr(ActionWord.complete))
     ELSE base

\* What a call gives: the value it returns, or an exception.
Returns(val) == [raised |-> FALSE, value |-> val]
Raises == [raised |-> TRUE, value |-> EmptyDict]

\* An interpreter whose direct parse lets the exception of json.loads escape.
InterpretReply_uncaught(response) ==
  LET raw == Unfence(response)
      direct == JsonLoads(raw)
      repaired == JsonLoads(RepairJson(ExtractJson(raw)))
  IN IF StartsWith(raw, <<"{">>) /\ direct.ok THEN Returns(NormalizeAction(direct.val))
     ELSE IF StartsWith(raw, <<"{">>) THEN Raises
     ELSE IF ExtractJson(raw) # <<>> /\ repaired.ok
       THEN Returns(NormalizeAction(repaired.val))
     ELSE Returns(KeywordFallback(raw))

\* VisualLLMAnalyzer._parse_action_response on the text of a reply: the
\* direct parse, the parse of the extracted and repaired object, the keyword
\* fallback.  Both calls of json.loads are inside a try.
InterpretReply(response) ==
  LET raw == Unfence(response)
      direct == JsonLoads(raw)
      repaired == JsonLoads(RepairJson(ExtractJson(raw)))
  IN IF StartsWith(raw, <<"{">>) /\ direct.ok THEN Returns(NormalizeAction(direct.val))
     ELSE IF ExtractJson(raw) # <<>> /\ repaired.ok
       THEN Returns(NormalizeAction(repaired.val))
     ELSE Returns(KeywordFallback(raw))

\* --------------------------------------------------------- model replies
\* Texts the model can reply with.
D_OK == <<"O", "K">>

\* String values, whole objects and descriptions of the replies and calls.
Sample ==
  [ brace |-> <<"a", "}">>,
    comma_brace |-> <<"{", "a", ",", " ", "}">>,
    hi |-> <<"h", "i">>,
    quoted_single |->
      <<"{", "'", "a", "c", "t", "i", "o", "n", "_", "t", "y", "p", "e", "'",
        ":", "'", "b", "a", "c", "k", "'", "}">>,
    with_comment |->
      <<"{", "\n", "/", "/", " ", "g", "o", " ", "b", "a", "c", "k", "\n", "\"",
        "a", "c", "t", "i", "o", "n", "_", "t", "y", "p", "e", "\"", ":", "\"",
        "b", "a", "c", "k", "\"", "\n", "}">>,
    search |-> <<"U641C", "U7D22">>,
    none |-> <<"z", "z">>,
    ok_padded |-> <<" ", "o", "k", " ">> ]

\* Replies without an object.
Prose ==
  [ click |->
      <<"P", "l", "e", "a", "s", "e", " ", "c", "l", "i", "c", "k", " ", "t",
        "h", "e", " ", "O", "K", " ", "b", "u", "t", "t", "o", "n">>,
    type |->
      <<"t", "y", "p", "e", " ", "t", "h", "e", " ", "q", "u", "e", "r", "y">>,
    input |-> <<"I", "n", "p", "u", "t", " ", "n", "e", "e", "d", "e", "d">>,
    swipe |-> <<"s", "w", "i", "p", "e", " ", "u", "p">>,
    scroll |-> <<"s", "c", "r", "o", "l", "l", " ", "d", "o", "w", "n">>,
    back |-> <<"g", "o", " ", "b", "a", "c", "k">>,
    complete |->
      <<"t", "a", "s", "k", " ", "c", "o", "m", "p", "l", "e", "t", "e">>,
    finish |-> <<"F", "i", "n", "i", "s", "h", "e", "d">>,
    wait |-> <<"I", " ", "w", "i", "l", "l", " ", "w", "a", "i", "t">>,
    empty |-> <<>> ]

\* A quoted string, a member and an object as the model writes them;
\* closing is the text from the last member to the closing brace.
Quoted(s) == <<"\"">> \o s \o <<"\"">>
Member(key, val) == <<Quoted(key) \o <<":">> \o val>>

RECURSIVE JoinMembers(_)
JoinMembers(members) ==
  IF members = <<>> THEN <<>>
  ELSE IF Len(members) = 1 THEN members[1]
  ELSE members[1] \o <<",">> \o JoinMembers(Tail(members))

ObjectText(members, closing) == <<"{">> \o JoinMembers(members) \o closing

\* The members of the objects of the replies.
ReplyMembers ==
  { Member(Key.action_type, Quoted(ActionWord.click)) \o Member(Key.description, Quoted(D_OK)),
    Member(Key.action_type, Quoted(ActionWord.click)) \o Member(Key.description, Quoted(Sample.brace)),
    Member(Key.action_type, Quoted(ActionWord.click)) \o Member(Key.description, Quoted(Sample.comma_brace)),
    Member(Key.action_type, Quoted(ActionWord.click)) \o Member(Key.description, Quoted(D_OK))
      \o Member(Key.x, <<"5", "4", "0">>) \o Member(Key.y, <<"1", "2", "0", "0">>),
    Member(Key.action_type, Quoted(ActionWord.click)) \o Member(Key.target, Quoted(D_OK)),
    Member(Key.action_type, Quoted(ActionWord.input)) \o Member(Key.text, Quoted(Sample.hi)),
    Member(Key.action_type, Quoted(ActionWord.input)),
    Member(Key.action_type, Quoted(ActionWord.input)) \o Member(Key.text, Quoted(<<>>)),
    Member(Key.action, Quoted(ActionWord.back)),
    Member(Key.type, Quoted(ActionWord.wait)) \o Member(Key.wait_time, <<"3">>),
    Member(Key.action_type, Quoted(ActionWord.complete)) \o Member(Key.success, JTrue.v),
    Member(Key.note, Quoted(Sample.hi)) }

\* The closing brace, and a trailing comma before it: at once, after a space,
\* after a newline, after a newline and an indentation.
plain_closing == <<"}">>
TrailingCommaClosings ==
  { <<",", "}">>, <<",", " ", "}">>, <<",", "\n", "}">>, <<",", "\n", " ", " ", "}">> }

\* How the model wraps an object: not at all, in a fence with or without the
\* json tag, after a sentence.
Wrappers == {"none", "fence_json", "fence", "sentence"}

Wrap(wrapper, text) ==
  CASE wrapper = "fence_json" -> Fence.json \o <<"\n">> \o text \o <<"\n">> \o Fence.plain
    [] wrapper = "fence" -> Fence.plain \o <<"\n">> \o text \o <<"\n">> \o Fence.plain
    [] wrapper = "sentence" -> <<"S", "u", "r", "e", ":", " ">> \o text
    [] OTHER -> text

\* A call of _parse_action_response on a reply that holds an object.
ObjectCall(members, closing, wrapper) ==
  [fn |-> "_parse_action_response",
   response |-> Wrap(wrapper, ObjectText(members, closing)),
   members |-> members, closing |-> closing, wrapper |-> wrapper]

\* A call of _parse_action_response on another text.
TextCall(text) ==
  [fn |-> "_parse_action_response", response |-> text,
   members |-> <<>>, closing |-> <<>>, wrapper |-> "text"]

ReplyCalls ==
  { ObjectCall(m, c, w) :
      m \in ReplyMembers, c \in {plain_closing} \cup TrailingCommaClosings,
      w \in Wrappers }
  \cup { TextCall(t) : t \in {Prose.click, Prose.type, Prose.input, Prose.swipe, Prose.scroll, Prose.back,
                               Prose.complete, Prose.finish, Prose.wait, Prose.empty,
                               Sample.quoted_single, Sample.with_comment} }

\* ------------------------------------------------------------ environment

\* The replies the model gives in the runs explored.
Replies ==
  { MkReply("json", "click", D_OK, <<>>, Absent, {}),
    MkReply("json", "back", <<>>, <<>>, Absent, {}),
    MkReply("json", "wait", <<>>, <<>>, -1, {}),
    MkReply("json", "complete", <<>>, <<>>, Absent, {}),
    MkReply("prose", "missing", <<>>, <<>>, Absent, {}) }

\* The replies the model gives to a refinement request.
RefineReplies ==
  { MkReply("json", "click", D_OK, <<>>, Absent, {}),
    MkReply("json", "wait", <<>>, <<>>, default_wait_time, {}) }

\* More replies to a refinement request: a click without a description, a
\* sentence with the word click, a sentence without keyword.
AnyRefineReplies ==
  RefineReplies \cup
    { MkReply("json", "click", <<>>, <<>>, Absent, {}),
      MkReply("prose", "missing", <<>>, <<>>, Absent, {"click"}),
      MkReply("prose", "missing", <<>>, <<>>, Absent, {}) }

E_SMALL == MkElement(500, 500, 502, 502, <<"o", "k">>)

\* Elements of the screens on which grounding and the click handler are
\* called on their own: the whole screen, a button whose bounds have odd sums,
\* a label that contains the button's text, a search button and a blank box;
\* two icons of the bottom bar, a button with a search keyword, and a knob
\* around the point (501, 501) that is wide enough to be jittered.
Elem ==
  [ screen |-> MkElement(0, 0, 1080, 2340, <<>>),
    ok_odd |-> MkElement(901, 2201, 980, 2260, D_OK),
    ok_now |-> MkElement(0, 100, 300, 161, <<"O", "K", " ", "n", "o", "w">>),
    search |-> MkElement(900, 2200, 980, 2260, <<"U641C", "U7D22">>),
    blank |-> MkElement(0, 0, 100, 50, <<>>),
    icon_a |-> MkElement(400, 2000, 500, 2100, <<>>),
    icon_b |-> MkElement(100, 1900, 130, 1930, <<>>),
    find |-> MkElement(600, 1200, 700, 1260, <<"F", "i", "n", "d">>),
    knob |-> MkElement(496, 496, 506, 506, <<"k", "n", "o", "b">>) ]

\* What the functions of the loop guard are called with on their own: every
\* list of at most MaxElements of the elements and two longer lists of bottom
\* icons; the descriptions; the click histories of the click handler (none,
\* two taps near (501, 501), and two full ones); the points and the
\* histories of at most MaxHistory points of _is_repeat_click.
GroundInputs ==
  LET pool == {Elem.screen, Elem.ok_odd, Elem.ok_now, Elem.search, Elem.blank,
               Elem.icon_a, Elem.icon_b, Elem.find, Elem.knob, E_SMALL}
      points == {<<495, 500>>, <<500, 500>>, <<505, 500>>, <<500, 506>>}
  IN [ pool |-> pool,
       elements |->
         UNION {[1..n -> pool] : n \in 0..MaxElements}
           \cup {<<Elem.ok_odd, Elem.icon_a, Elem.icon_b>>,
                 <<Elem.icon_a, Elem.ok_odd, Elem.screen, Elem.icon_b>>},
       descriptions |-> {D_OK, Sample.search, Sample.none, Sample.ok_padded, <<>>},
       histories |->
         {<<>>,
          <<<<500, 500>>, <<502, 498>>>>,
          <<<<10, 10>>, <<20, 20>>, <<30, 30>>, <<500, 500>>, <<502, 498>>>>,
          <<<<10, 10>>, <<20, 20>>, <<30, 30>>, <<40, 40>>, <<60, 60>>>>},
       points |-> points,
       point_histories |-> UNION {[1..n -> points] : n \in 0..MaxHistory} ]

GroundCalls ==
  {[fn |-> "_find_best_matching_element", elements |-> els, description |-> d] :
     els \in GroundInputs.elements, d \in GroundInputs.descriptions}

\* A click on the screenshot of content hash 1; the hash stored is that of
\* another screen when clicks were recorded before, and None otherwise.
ClickCalls ==
  {[fn |-> "_handle_click_action", elements |-> els, description |-> d,
    history |-> h, last_hash |-> IF h = <<>> THEN 0 ELSE 2] :
     els \in GroundInputs.elements, d \in GroundInputs.descriptions,
     h \in GroundInputs.histories}

RepeatClickCalls ==
  {[fn |-> "_is_repeat_click", history |-> h, x |-> p[1], y |-> p[2]] :
     h \in GroundInputs.point_histories, p \in GroundInputs.points}

AlternativeCalls ==
  {[fn |-> "_find_alternative_element", elements |-> els, target |-> t] :
     els \in GroundInputs.elements, t \in GroundInputs.pool}

\* The element lists WidgetDetector.detect returns in the runs explored.
ElementLists == { <<>>, <<E_SMALL>> }

\* The content hashes of the screenshots the device produces.
Screens == {1, 2}

\* Time a model round-trip of the coarse analysis takes: none, or more than
\* the step timeout.
Latencies == {0, StepTimeout + 1}

\* Elapsed seconds are only compared with step_timeout: count up to just above it.
Sat(t) == Min(t, StepTimeout + 1)

\* ------------------------------------------------------------------ state
VARIABLES
  pc,                   \* position of the engine in execute_test
  current_test,         \* TestEngine.current_test
  max_steps,            \* TestEngine.config["max_steps"]
  step_count,           \* TestEngine.step_count
  steps,                \* the list `steps` of _execute_test_steps
  screenshot,           \* screenshot_path of the current step (content hash, 0 = None)
  current_step,         \* current_step of analyze_and_generate_action
  action_result,        \* action_result of the current step
  refine_attempts,      \* refine_attempts of analyze_screenshot_for_action
  attempt,              \* attempts made by _execute_action_with_retry in this step
  elapsed,              \* time.time() - step_start_time, in seconds
  click_history,        \* TestEngine.click_history
  last_screenshot_hash, \* TestEngine.last_screenshot_hash (0 = None)
  action_history,       \* VisualLLMAnalyzer.action_history
  steps_result,         \* the value _execute_test_steps returns
  final_check,          \* the value _perform_final_check returns
  result,               \* the value execute_test returns
  launched,             \* the value _launch_app returned
  calls,                \* calls made to the device and the model in this step
  taps,                 \* points tapped by op_click in this step
  detected,             \* element lists the detector returned in this step
  call,                 \* a function called on its own, with its arguments
  ret                   \* the value that call returned

vars == <<pc, current_test, max_steps, step_count, steps, screenshot,
          current_step, action_result, refine_attempts, attempt, elapsed,
          click_history, last_screenshot_hash, action_history, steps_result,
          final_check, result, launched, calls, taps, detected, call, ret>>

\* A StepRecord that succeeds only when its ActionRecord says success.
MkStep_actionSuccess(n, ok, err, action, shot) ==
  [step |-> n, success |-> ok /\ action.success, error |-> err, action |-> action,
   screenshot |-> shot # 0]

\* A StepRecord.
MkStep(n, ok, err, action, shot) ==
  [step |-> n, success |-> ok, error |-> err, action |-> action,
   screenshot |-> shot # 0]

\* current_test is None.
NoTest == [loaded |-> FALSE, app_ok |-> FALSE, scenario_ok |-> FALSE, steps |-> -1]

NoStepsResult == [success |-> FALSE, error |-> "", present |-> FALSE]
NoFinalCheck ==
  [success |-> FALSE, error |-> "", screenshot |-> 0, present |-> FALSE,
   raised |-> FALSE]
NoResult == [success |-> FALSE, error |-> "", steps |-> <<>>,
             final_check |-> NoFinalCheck, present |-> FALSE]

MkResult(ok, err, recs, fc) ==
  [success |-> ok, error |-> err, steps |-> recs, final_check |-> fc, present |-> TRUE]

\* shots: captures, model: model round-trips, device: device operations,
\* succeeded: execution attempts that returned success, final: final checks,
\* coarse: the action parsed from the reply of the coarse call, refined: what
\* each refinement round-trip gave (the action parsed from the reply, or that
\* the call raised).
NoCalls ==
  [shots |-> 0, model |-> 0, device |-> 0, succeeded |-> 0, final |-> 0,
   coarse |-> NoAction, refined |-> <<>>]

\* No function is called on its own.
NoCall == [fn |-> "none"]

\* The call has not returned.
NoReturn == [returned |-> FALSE]

\* A returned value.
Return(v) == [returned |-> TRUE, value |-> v]

\* State after TestEngine.__init__ and VisualLLMAnalyzer.__init__.
EngineInit ==
  /\ pc = "idle"
  /\ current_test = NoTest
  /\ max_steps = MaxSteps
  /\ step_count = 0
  /\ steps = <<>>
  /\ screenshot = 0
  /\ current_step = 0
  /\ action_result = NoAction
  /\ refine_attempts = 0
  /\ attempt = 0
  /\ elapsed = 0
  /\ click_history = <<>>
  /\ last_screenshot_hash = 0
  /\ action_history = <<>>
  /\ steps_result = NoStepsResult
  /\ final_check = NoFinalCheck
  /\ result = NoResult
  /\ launched = FALSE
  /\ calls = NoCalls
  /\ taps = <<>>
  /\ detected = <<>>

\* The engine as constructed, on which execute_test will run.
Init == EngineInit /\ call = NoCall /\ ret = NoReturn

\* The variables of the engine and the analyzer.
engineVars == <<pc, current_test, max_steps, step_count, steps, screenshot,
                current_step, action_result, refine_attempts, attempt, elapsed,
                click_history, last_screenshot_hash, action_history,
                steps_result, final_check, result, launched, calls, taps,
                detected>>

\* -------------------------------------------------------------- operations
\* A load that takes the length of steps whenever steps is a list.
ResolveMaxSteps_anyList(n) == IF n >= 0 THEN n ELSE default_max_steps

\* max_steps as load_test_requirement sets it (lines 106-116); n is the
\* number of entries of test_scenario.steps, -1 when steps is missing or is
\* not a list.
ResolveMaxSteps(n) == IF n > 0 THEN n ELSE default_max_steps

\* TestEngine.load_test_requirement: the file holds a specification whose
\* test_scenario.steps has n entries; appOk: package and launch activity are
\* given; scenarioOk: test_scenario is a mapping (otherwise the function
\* fails after current_test was assigned).
LoadTestRequirement ==
  /\ pc = "idle"
  /\ UNCHANGED <<call, ret>>
  /\ \E n \in 1..MaxSteps, appOk \in BOOLEAN, scenarioOk \in BOOLEAN :
       /\ current_test' = [loaded |-> TRUE, app_ok |-> appOk,
                           scenario_ok |-> scenarioOk, steps |-> n]
       /\ max_steps' = IF ~scenarioOk THEN max_steps ELSE ResolveMaxSteps(n)
  /\ UNCHANGED <<pc, step_count, steps, screenshot, current_step, action_result,
                 refine_attempts, attempt, elapsed, click_history,
                 last_screenshot_hash, action_history, steps_result, final_check,
                 result, launched, calls, taps, detected>>

\* load_test_requirement on any file: steps may be missing or not a list
\* (n = -1) or the empty list (n = 0).
LoadAnyTestRequirement ==
  /\ pc = "idle"
  /\ ~current_test.loaded
  /\ UNCHANGED <<call, ret>>
  /\ \E n \in (-1)..MaxSteps, appOk \in BOOLEAN, scenarioOk \in BOOLEAN :
       /\ current_test' = [loaded |-> TRUE, app_ok |-> appOk,
                           scenario_ok |-> scenarioOk, steps |-> n]
       /\ max_steps' = IF ~scenarioOk THEN max_steps ELSE ResolveMaxSteps(n)
  /\ UNCHANGED <<pc, step_count, steps, screenshot, current_step, action_result,
                 refine_attempts, attempt, elapsed, click_history,
                 last_screenshot_hash, action_history, steps_result, final_check,
                 result, launched, calls, taps, detected>>

\* A launch that does not look at the application identity.
LaunchApp_anyIdentity(test, launch) == launch # "fail"

\* TestEngine._launch_app: the package and the launch activity are given and
\* device_manager.launch_app returns true.
LaunchApp(test, launch) == test.app_ok /\ launch = "ok"

\* TestEngine.execute_test up to the call of _execute_test_steps, with
\* _launch_app; launch is what device_manager.launch_app does ("raise": the
\* engine has no device manager).
ExecuteTest ==
  /\ pc = "idle"
  /\ UNCHANGED <<call, ret>>
  /\ \E launch \in {"ok", "fail", "raise"} :
       IF ~current_test.loaded
         THEN /\ result' = MkResult(FALSE, "no_test_loaded", <<>>, NoFinalCheck)
              /\ pc' = "done"
              /\ launched' = FALSE
         ELSE IF current_test.app_ok /\ launch = "raise"
         THEN /\ result' = MkResult(FALSE, "execute_exception", <<>>, NoFinalCheck)
              /\ pc' = "done"
              /\ launched' = FALSE
         ELSE IF ~LaunchApp(current_test, launch)
         THEN /\ result' = MkResult(FALSE, "launch_failed", <<>>, NoFinalCheck)
              /\ pc' = "done"
              /\ launched' = FALSE
         ELSE /\ result' = result
              /\ pc' = "loop"
              /\ launched' = TRUE
  /\ step_count' = 0
  /\ steps' = <<>>
  /\ UNCHANGED <<current_test, max_steps, screenshot, current_step, action_result,
                 refine_attempts, attempt, elapsed, click_history,
                 last_screenshot_hash, action_history, steps_result, final_check,
                 calls, taps, detected>>

\* The loop condition with an off-by-one bound.
LoopContinues_inclusive(count, maxSteps) == count <= maxSteps

\* The loop condition of _execute_test_steps.
LoopContinues(count, maxSteps) == count < maxSteps

\* A failed capture that goes on with the next iteration.
AfterCaptureFailure_continue == "loop"

\* Where the loop goes after a failed capture (the break of line 233).
AfterCaptureFailure == "loop_end"

\* One iteration begins: step_count += 1 and _take_screenshot.
BeginStep ==
  /\ pc = "loop"
  /\ UNCHANGED <<call, ret>>
  /\ LoopContinues(step_count, max_steps)
  /\ step_count' = step_count + 1
  /\ elapsed' = 0
  /\ attempt' = 0
  /\ refine_attempts' = 0
  /\ taps' = <<>>
  /\ detected' = <<>>
  /\ calls' = [NoCalls EXCEPT !.shots = 1]
  /\ \E shot \in {0} \cup Screens :
       /\ screenshot' = shot
       /\ IF shot = 0
            THEN /\ steps' = Append(steps, MkStep(step_count', FALSE, "screenshot_failed",
                                                  NoAction, 0))
                 /\ pc' = AfterCaptureFailure
            ELSE /\ steps' = steps
                 /\ pc' = "analyze"
  /\ UNCHANGED <<current_test, max_steps, current_step, action_result,
                 click_history, last_screenshot_hash, action_history,
                 steps_result, final_check, result, launched>>

\* The loop condition is false.
ExitLoop ==
  /\ pc = "loop"
  /\ UNCHANGED <<call, ret>>
  /\ ~LoopContinues(step_count, max_steps)
  /\ pc' = "loop_end"
  /\ UNCHANGED <<current_test, max_steps, step_count, steps, screenshot,
                 current_step, action_result, refine_attempts, attempt, elapsed,
                 click_history, last_screenshot_hash, action_history,
                 steps_result, final_check, result, launched, calls, taps, detected>>

\* `not action_result` of line 243.
IsFalsy(action) == action = NoAction

\* An entry of VisualLLMAnalyzer.action_history.
MkHistory(n, phase) == [step |-> n, phase |-> phase]

\* analyze_and_generate_action and the coarse phase of
\* analyze_screenshot_for_action.  A specification whose test_scenario is not
\* a mapping makes analyze_and_generate_action raise; a model call that
\* raises is caught by the analyzer, which returns the error action.
Analyze ==
  /\ pc = "analyze"
  /\ UNCHANGED <<call, ret>>
  /\ \E modelOk \in BOOLEAN, r \in Replies, lat \in Latencies :
       LET cs == Len(action_history) + 1
           a == IF modelOk THEN ParseActionResponse(r) ELSE ErrorAction
       IN IF ~current_test.scenario_ok
            THEN /\ steps' = Append(steps, MkStep(step_count, FALSE, "step_exception",
                                                  NoAction, screenshot))
                 /\ pc' = "loop_end"
                 /\ UNCHANGED <<current_step, action_result, action_history,
                                calls, elapsed>>
            ELSE /\ current_step' = cs
                 /\ calls' = [calls EXCEPT !.model = @ + 1,
                                           !.coarse = IF modelOk THEN a ELSE NoAction]
                 /\ elapsed' = Sat(elapsed + lat)
                 /\ action_result' = a
                 /\ IF IsFalsy(a)
                      THEN /\ steps' = Append(steps, MkStep(step_count, FALSE,
                                                "llm_analysis_failed", NoAction, screenshot))
                           /\ pc' = "loop_end"
                           /\ action_history' = action_history
                      ELSE /\ steps' = steps
                           /\ IF modelOk /\ a.action_type = "click"
                                THEN /\ pc' = "refine"
                                     /\ action_history' = action_history
                                ELSE /\ pc' = "exec"
                                     /\ action_history' =
                                          IF modelOk
                                            THEN Append(action_history, MkHistory(cs, "action"))
                                            ELSE action_history
  /\ UNCHANGED <<current_test, max_steps, step_count, screenshot,
                 refine_attempts, attempt, click_history, last_screenshot_hash,
                 steps_result, final_check, result, launched, taps, detected>>

\* The refined reply is adopted (line 100); the description of the replies
\* explored is a string, or is absent and set to "" by _parse_action_response.
RefinedAdopted(refined) == refined.action_type = "click"

\* A refinement loop without the break on adoption.
RefineOver_noBreak(adopted, n) == ~(n < max_refine_attempts)

\* The refinement loop ends: the break of line 102, the condition of line 74.
RefineOver(adopted, n) == adopted \/ ~(n < max_refine_attempts)

\* One iteration of the refinement loop of analyze_screenshot_for_action,
\* followed, when the loop ends, by the recording of the action history;
\* replies are the replies the model can give.
RefineWith(replies) ==
  /\ pc = "refine"
  /\ UNCHANGED <<call, ret>>
  /\ refine_attempts < max_refine_attempts
  /\ \E modelOk \in BOOLEAN, r \in replies :
       LET refined == ParseActionResponse(r)
           adopted == modelOk /\ RefinedAdopted(refined)
           n == refine_attempts + 1
           logged == IF modelOk /\ ~adopted
                       THEN Append(action_history, MkHistory(current_step, "refine_attempt"))
                       ELSE action_history
           over == RefineOver(adopted, n)
       IN /\ refine_attempts' = n
          /\ calls' = [calls EXCEPT
                         !.model = @ + 1,
                         !.refined = Append(@, [raised |-> ~modelOk,
                                                action |-> IF modelOk THEN refined
                                                           ELSE NoAction])]
          /\ action_result' = IF adopted THEN refined ELSE action_result
          /\ action_history' =
               IF over THEN Append(logged, MkHistory(current_step, "action")) ELSE logged
          /\ pc' = IF over THEN "exec" ELSE "refine"
  /\ UNCHANGED <<current_test, max_steps, step_count, steps, screenshot,
                 current_step, attempt, elapsed, click_history,
                 last_screenshot_hash, steps_result, final_check, result,
                 launched, taps, detected>>

Refine == RefineWith(RefineReplies)

\* What one call of an action handler did.
MkOutcome(ok, raised, history, hash, tapped, device, slept) ==
  [success |-> ok, raised |-> raised, click_history |-> history,
   last_screenshot_hash |-> hash, taps |-> tapped, device |-> device,
   slept |-> slept]

\* A loop guard that looks at the screenshot only.
GuardIntervenes_hashOnly(target, shot, history, lastHash) ==
  IsInterfaceUnchanged(lastHash, shot)

\* A loop guard that looks at the click history only.
GuardIntervenes_repeatOnly(target, shot, history, lastHash) ==
  IsRepeatClick(history, CenterX(target), CenterY(target))

\* The loop guard of _handle_click_action intervenes for this target.
GuardIntervenes(target, shot, history, lastHash) ==
  \/ IsRepeatClick(history, CenterX(target), CenterY(target))
  \/ IsInterfaceUnchanged(lastHash, shot)

\* The point _handle_click_action taps for a target.
ClickPoint(target, elements, shot, history, lastHash, rx, ry) ==
  LET cx == CenterX(target)
      cy == CenterY(target)
      alternative_target == FindAlternativeElement(elements, target)
  IN IF GuardIntervenes(target, shot, history, lastHash)
       THEN IF alternative_target # NoElement
              THEN <<CenterX(alternative_target), CenterY(alternative_target)>>
              ELSE AdjustCoordinates(cx, cy, target, rx, ry)
       ELSE <<cx, cy>>

\* A click handler that stores the screenshot hash before it looks for a target.
HandleClickAction_hashFirst(action, shot, elements, history, lastHash, rx, ry, devOk) ==
  LET target == FindBestMatchingElement(elements, action.description)
      p == ClickPoint(target, elements, shot, history, lastHash, rx, ry)
  IN IF target = NoElement
       THEN MkOutcome(FALSE, FALSE, history, shot, <<>>, 0, 0)
       ELSE MkOutcome(devOk, FALSE, RecordClick(history, p[1], p[2]), shot,
                      <<p>>, 1, 0)

\* A click handler that records the grounded point, not the point it taps.
HandleClickAction_recordsGrounded(action, shot, elements, history, lastHash, rx, ry, devOk) ==
  LET target == FindBestMatchingElement(elements, action.description)
      p == ClickPoint(target, elements, shot, history, lastHash, rx, ry)
  IN IF target = NoElement
       THEN MkOutcome(FALSE, FALSE, history, lastHash, <<>>, 0, 0)
       ELSE MkOutcome(devOk, FALSE,
                      RecordClick(history, CenterX(target), CenterY(target)), shot,
                      <<p>>, 1, 0)

\* TestEngine._handle_click_action; elements is what the detector returns
\* (empty when detection fails), devOk what op_click returns.
HandleClickAction(action, shot, elements, history, lastHash, rx, ry, devOk) ==
  LET target == FindBestMatchingElement(elements, action.description)
      p == ClickPoint(target, elements, shot, history, lastHash, rx, ry)
  IN IF target = NoElement
       THEN MkOutcome(FALSE, FALSE, history, lastHash, <<>>, 0, 0)
       ELSE MkOutcome(devOk, FALSE, RecordClick(history, p[1], p[2]), shot,
                      <<p>>, 1, 0)

\* TestEngine._handle_input_action without coordinates: focus_top_input_area,
\* delete_chars, op_input.
HandleInputAction(action, history, lastHash, devOk) ==
  IF action.text = <<>>
    THEN MkOutcome(FALSE, FALSE, history, lastHash, <<>>, 0, 0)
    ELSE MkOutcome(devOk, FALSE, history, lastHash, <<>>, 3, 0)

\* TestEngine._execute_single_action; a negative wait_time makes time.sleep raise.
ExecuteSingleAction(action, shot, elements, history, lastHash, rx, ry, devOk) ==
  LET act == action.action_type
      wt == IF action.wait_time = Absent THEN default_wait_time ELSE action.wait_time
  IN CASE act = "click" ->
            HandleClickAction(action, shot, elements, history, lastHash, rx, ry, devOk)
       [] act = "input" -> HandleInputAction(action, history, lastHash, devOk)
       [] act \in {"swipe", "scroll", "back", "home"} ->
            MkOutcome(devOk, FALSE, history, lastHash, <<>>, 1, 0)
       [] act = "wait" ->
            IF wt < 0 THEN MkOutcome(FALSE, TRUE, history, lastHash, <<>>, 0, 0)
            ELSE MkOutcome(TRUE, FALSE, history, lastHash, <<>>, 0, wt)
       [] act = "complete" -> MkOutcome(TRUE, FALSE, history, lastHash, <<>>, 0, 0)
       [] OTHER -> MkOutcome(FALSE, FALSE, history, lastHash, <<>>, 0, 0)

\* The random draws _adjust_coordinates can make in this attempt.
JitterX(action, shot, elements, history, lastHash) ==
  LET target == FindBestMatchingElement(elements, action.description)
  IN IF /\ action.action_type = "click"
        /\ target # NoElement
        /\ GuardIntervenes(target, shot, history, lastHash)
        /\ FindAlternativeElement(elements, target) = NoElement
       THEN (0 - OffsetX(target))..OffsetX(target)
       ELSE {0}

JitterY(action, shot, elements, history, lastHash) ==
  LET target == FindBestMatchingElement(elements, action.description)
  IN IF /\ action.action_type = "click"
        /\ target # NoElement
        /\ GuardIntervenes(target, shot, history, lastHash)
        /\ FindAlternativeElement(elements, target) = NoElement
       THEN (0 - OffsetY(target))..OffsetY(target)
       ELSE {0}

\* A retry loop without the early return on success.
RetryOver_noShortCircuit(ok, made) == ~(made < max_retry_count)

\* _execute_action_with_retry stops: a success returns, the range is exhausted.
RetryOver(ok, made) == ok \/ ~(made < max_retry_count)

\* A loop without the break on a complete action.
AfterRecord_noBreak(action) == "sleep"

\* Where the loop goes after the StepRecord of an executed action (line 276).
AfterRecord(action) == IF action.action_type = "complete" THEN "loop_end" ELSE "sleep"

\* One attempt of _execute_action_with_retry; the attempt that ends the retry
\* loop is followed by the recording of the step (lines 261-278).  lists are
\* the element lists the detector can return.
ExecuteAttemptWith(lists) ==
  /\ pc = "exec"
  /\ UNCHANGED <<call, ret>>
  /\ attempt < max_retry_count
  /\ \E elements \in (IF action_result.action_type = "click" THEN lists ELSE {<<>>}),
        devOk \in BOOLEAN :
       \E rx \in JitterX(action_result, screenshot, elements, click_history, last_screenshot_hash),
          ry \in JitterY(action_result, screenshot, elements, click_history, last_screenshot_hash) :
          LET o == ExecuteSingleAction(action_result, screenshot, elements,
                                       click_history, last_screenshot_hash, rx, ry, devOk)
              ok == o.success /\ ~o.raised
              made == attempt + 1
              over == RetryOver(ok, made)
          IN /\ attempt' = made
             /\ elapsed' = Sat(elapsed + (IF attempt > 0 THEN retry_sleep ELSE 0) + o.slept)
             /\ click_history' = o.click_history
             /\ last_screenshot_hash' = o.last_screenshot_hash
             /\ taps' = taps \o o.taps
             /\ detected' = IF action_result.action_type = "click"
                               THEN Append(detected, elements) ELSE detected
             /\ calls' = [calls EXCEPT !.device = @ + o.device,
                                       !.succeeded = @ + (IF ok THEN 1 ELSE 0)]
             /\ steps' = IF over
                           THEN Append(steps, MkStep(step_count, ok,
                                         IF ok THEN "" ELSE "action_failed",
                                         action_result, screenshot))
                           ELSE steps
             /\ pc' = IF over THEN AfterRecord(action_result) ELSE "exec"
  /\ UNCHANGED <<current_test, max_steps, step_count, screenshot, current_step,
                 action_result, refine_attempts, action_history, steps_result,
                 final_check, result, launched>>

ExecuteAttempt == ExecuteAttemptWith(ElementLists)

\* A timeout test with >= for >.
TimedOut_inclusive(seconds) == seconds >= StepTimeout

\* The timeout test of line 284.
TimedOut(seconds) == seconds > StepTimeout

\* A timeout record that takes the index of the step that timed out.
TimeoutRecord_sameIndex(count) == MkStep(count, FALSE, "step_timeout", NoAction, 0)

\* The StepRecord appended when the step timed out (lines 285-292).
TimeoutRecord(count) == MkStep(count + 1, FALSE, "step_timeout", NoAction, 0)

\* The inter-step sleep and the timeout check (lines 280-293).  When the
\* iteration ends without a break its locals are dead: the next iteration
\* assigns them anew.
SleepAndCheckTimeout ==
  /\ pc = "sleep"
  /\ UNCHANGED <<call, ret>>
  /\ LET total == Sat(elapsed + ScreenshotInterval)
     IN IF TimedOut(total)
          THEN /\ steps' = Append(steps, TimeoutRecord(step_count))
               /\ pc' = "loop_end"
               /\ elapsed' = total
               /\ UNCHANGED <<screenshot, current_step, action_result,
                              refine_attempts, attempt, calls, taps, detected>>
          ELSE /\ steps' = steps
               /\ pc' = "loop"
               /\ elapsed' = total
               /\ screenshot' = 0
               /\ current_step' = 0
               /\ action_result' = NoAction
               /\ refine_attempts' = 0
               /\ attempt' = 0
               /\ calls' = NoCalls
               /\ taps' = <<>>
               /\ detected' = <<>>
  /\ UNCHANGED <<current_test, max_steps, step_count, click_history,
                 last_screenshot_hash, action_history, steps_result,
                 final_check, result, launched>>

\* A step loop that succeeds only when every step succeeded.
StepsSuccess_all(recs) == Len(recs) > 0 /\ \A i \in 1..Len(recs) : recs[i].success

\* The success of the step loop (line 307).
StepsSuccess(recs) == Len(recs) > 0 /\ \E i \in 1..Len(recs) : recs[i].success

\* The end of _execute_test_steps (lines 306-313); the locals of the last
\* iteration go out of scope.
EndStepLoop ==
  /\ pc = "loop_end"
  /\ UNCHANGED <<call, ret>>
  /\ steps_result' = [success |-> StepsSuccess(steps),
                      error |-> IF StepsSuccess(steps) THEN "" ELSE "all_steps_failed",
                      present |-> TRUE]
  /\ pc' = "final"
  /\ screenshot' = 0
  /\ current_step' = 0
  /\ action_result' = NoAction
  /\ refine_attempts' = 0
  /\ attempt' = 0
  /\ elapsed' = 0
  /\ calls' = NoCalls
  /\ taps' = <<>>
  /\ detected' = <<>>
  /\ UNCHANGED <<current_test, max_steps, step_count, steps, click_history,
                 last_screenshot_hash, action_history, final_check, result,
                 launched>>

MkFinalCheck(ok, err, shot, raised) ==
  [success |-> ok, error |-> err, screenshot |-> shot, present |-> TRUE,
   raised |-> raised]

\* A final check without its try/except: a model call that raises is raised
\* to execute_test.
FinalCheck_uncaught(shot, kind) ==
  IF shot = 0 THEN MkFinalCheck(FALSE, "final_screenshot_failed", 0, FALSE)
  ELSE IF kind = "model_error" THEN MkFinalCheck(FALSE, "final_check_model_error", 1, TRUE)
  ELSE MkFinalCheck(kind = "met", "", 1, FALSE)

\* TestEngine._perform_final_check: shot tells whether the final screenshot
\* was captured (0: the capture failed), kind what the completion check of
\* the model gives ("model_error": the call raises).  An exception is turned
\* into a failed check, never raised.
FinalCheck(shot, kind) ==
  IF shot = 0 THEN MkFinalCheck(FALSE, "final_screenshot_failed", 0, FALSE)
  ELSE IF kind = "model_error" THEN MkFinalCheck(FALSE, "final_check_model_error", 1, FALSE)
  ELSE MkFinalCheck(kind = "met", "", 1, FALSE)

\* The success of the run (line 158).
RunSuccess(sr, fc) == sr.success /\ fc.success

\* The error of the run (line 159): the first of the two that is set.
RunError(sr, fc) == IF sr.error # "" THEN sr.error ELSE fc.error

\* The result of execute_test once the step loop has run (lines 153-177).
BuildResult(sr, fc, recs) ==
  IF fc.raised
    THEN MkResult(FALSE, "execute_exception", <<>>, NoFinalCheck)
    ELSE MkResult(RunSuccess(sr, fc), RunError(sr, fc), recs, fc)

\* An engine that skips the final check when the step loop failed.
PerformFinalCheck_onlyOnSuccess ==
  /\ pc = "final"
  /\ UNCHANGED <<call, ret>>
  /\ IF steps_result.success
       THEN /\ \E shot \in {0, 1}, kind \in {"met", "not_met", "model_error"} :
                 LET fc == FinalCheck(shot, kind)
                 IN /\ final_check' = fc
                    /\ result' = BuildResult(steps_result, fc, steps)
            /\ calls' = [calls EXCEPT !.final = @ + 1]
       ELSE /\ result' = MkResult(FALSE, steps_result.error, steps, NoFinalCheck)
            /\ UNCHANGED <<final_check, calls>>
  /\ pc' = "done"
  /\ UNCHANGED <<current_test, max_steps, step_count, steps, screenshot,
                 current_step, action_result, refine_attempts, attempt, elapsed,
                 click_history, last_screenshot_hash, action_history,
                 steps_result, launched, taps, detected>>

\* The final check and the construction of the result.
PerformFinalCheck ==
  /\ pc = "final"
  /\ UNCHANGED <<call, ret>>
  /\ \E shot \in {0, 1}, kind \in {"met", "not_met", "model_error"} :
       LET fc == FinalCheck(shot, kind)
       IN /\ final_check' = fc
          /\ result' = BuildResult(steps_result, fc, steps)
  /\ calls' = [calls EXCEPT !.final = @ + 1]
  /\ pc' = "done"
  /\ UNCHANGED <<current_test, max_steps, step_count, steps, screenshot,
                 current_step, action_result, refine_attempts, attempt, elapsed,
                 click_history, last_screenshot_hash, action_history,
                 steps_result, launched, taps, detected>>

Next ==
  \/ LoadTestRequirement
  \/ ExecuteTest
  \/ BeginStep
  \/ ExitLoop
  \/ Analyze
  \/ Refine
  \/ ExecuteAttempt
  \/ SleepAndCheckTimeout
  \/ EndStepLoop
  \/ PerformFinalCheck

Spec == Init /\ [][Next]_vars

\* Every call to the device and to the model returns, and the engine is one
\* sequential thread: a run that has started keeps taking steps.
RunStep ==
  \/ BeginStep \/ ExitLoop \/ Analyze \/ Refine \/ ExecuteAttempt
  \/ SleepAndCheckTimeout \/ EndStepLoop \/ PerformFinalCheck

FairSpec == Spec /\ WF_vars(RunStep)

\* A quiet environment: the model answers back at once or the analysis
\* raises, and every device operation succeeds.
Quiet ==
  /\ action_result.action_type \in {"none", "back"}
  /\ attempt = calls.succeeded
  /\ elapsed <= StepTimeout

\* Runs of any loaded specification in a quiet environment.
LoadNext ==
  \/ LoadAnyTestRequirement
  \/ ExecuteTest
  \/ BeginStep
  \/ ExitLoop
  \/ Analyze /\ Quiet'
  \/ ExecuteAttempt /\ Quiet'
  \/ SleepAndCheckTimeout
  \/ EndStepLoop
  \/ PerformFinalCheck

LoadSpec == Init /\ [][LoadNext]_vars

\* The interpreter called on its own on a reply of the model.
InterpInit == EngineInit /\ call \in ReplyCalls /\ ret = NoReturn

Interpret ==
  /\ call.fn = "_parse_action_response"
  /\ ~ret.returned
  /\ ret' = Return(InterpretReply(call.response))
  /\ UNCHANGED <<call, engineVars>>

InterpSpec == InterpInit /\ [][Interpret]_vars

\* execute_test has returned and the caller calls it once more on the same
\* engine, after loading a test again or not.
ExecuteTestAgain ==
  /\ pc = "done"
  /\ call = NoCall
  /\ call' = [fn |-> "execute_test"]
  /\ pc' = "idle"
  /\ UNCHANGED <<ret, current_test, max_steps, step_count, steps, screenshot,
                 current_step, action_result, refine_attempts, attempt, elapsed,
                 click_history, last_screenshot_hash, action_history,
                 steps_result, final_check, result, launched, calls, taps,
                 detected>>

\* A steady environment: the model answers click or back or the analysis
\* raises, the detector finds the element, every device operation succeeds
\* and no step times out.
Steady ==
  /\ action_result.action_type \in {"none", "click", "back"}
  /\ attempt = calls.succeeded
  /\ elapsed <= StepTimeout

\* Two runs on one engine in a steady environment.
RerunNext ==
  \/ LoadTestRequirement
  \/ ExecuteTest
  \/ BeginStep
  \/ ExitLoop
  \/ Analyze /\ Steady'
  \/ Refine /\ Steady'
  \/ ExecuteAttempt /\ Steady'
  \/ SleepAndCheckTimeout
  \/ EndStepLoop
  \/ PerformFinalCheck
  \/ ExecuteTestAgain

RerunSpec == Init /\ [][RerunNext]_vars

\* Runs in a steady environment in which the model answers a refinement
\* request in any way.
RefineNext ==
  \/ LoadTestRequirement
  \/ ExecuteTest
  \/ BeginStep
  \/ ExitLoop
  \/ Analyze /\ Steady'
  \/ RefineWith(AnyRefineReplies)
  \/ ExecuteAttempt /\ Steady'
  \/ SleepAndCheckTimeout
  \/ EndStepLoop
  \/ PerformFinalCheck

RefineSpec == Init /\ [][RefineNext]_vars

\* Runs in which the model answers click, back or not at all and the tap may
\* fail; at each attempt the detector returns nothing, the small button
\* alone, or the small button and a blank box that is an alternative to it.
RetryNext ==
  \/ LoadTestRequirement
  \/ ExecuteTest
  \/ BeginStep
  \/ ExitLoop
  \/ Analyze /\ Steady'
  \/ Refine /\ Steady'
  \/ ExecuteAttemptWith({<<>>, <<E_SMALL>>, <<E_SMALL, Elem.blank>>})
  \/ SleepAndCheckTimeout
  \/ EndStepLoop
  \/ PerformFinalCheck

RetrySpec == Init /\ [][RetryNext]_vars

\* The functions of grounding and of the loop guard called on their own;
\* _adjust_coordinates is called as the click handler calls it, on the centre
\* of the target.
GroundInit ==
  /\ EngineInit
  /\ call \in GroundCalls \cup ClickCalls \cup RepeatClickCalls \cup AlternativeCalls
       \cup {[fn |-> "_adjust_coordinates", x |-> CenterX(t), y |-> CenterY(t),
               target |-> t] : t \in GroundInputs.pool}
  /\ ret = NoReturn

Ground ==
  /\ call.fn = "_find_best_matching_element"
  /\ ~ret.returned
  /\ ret' = Return(FindBestMatchingElement(call.elements, call.description))
  /\ UNCHANGED <<call, engineVars>>

Click ==
  LET action == MkAction("click", call.description, <<>>, Absent, TRUE, <<>>)
  IN /\ call.fn = "_handle_click_action"
     /\ ~ret.returned
     /\ \E rx \in JitterX(action, 1, call.elements, call.history, call.last_hash),
           ry \in JitterY(action, 1, call.elements, call.history, call.last_hash),
           devOk \in BOOLEAN :
           ret' = Return(HandleClickAction(action, 1, call.elements, call.history,
                                           call.last_hash, rx, ry, devOk))
     /\ UNCHANGED <<call, engineVars>>

RepeatClick ==
  /\ call.fn = "_is_repeat_click"
  /\ ~ret.returned
  /\ ret' = Return(IsRepeatClick(call.history, call.x, call.y))
  /\ UNCHANGED <<call, engineVars>>

Alternative ==
  /\ call.fn = "_find_alternative_element"
  /\ ~ret.returned
  /\ ret' = Return(FindAlternativeElement(call.elements, call.target))
  /\ UNCHANGED <<call, engineVars>>

\* The two draws of random.randint are any integers of their ranges.
Adjust ==
  /\ call.fn = "_adjust_coordinates"
  /\ ~ret.returned
  /\ \E rx \in (0 - OffsetX(call.target))..OffsetX(call.target),
        ry \in (0 - OffsetY(call.target))..OffsetY(call.target) :
        ret' = Return(AdjustCoordinates(call.x, call.y, call.target, rx, ry))
  /\ UNCHANGED <<call, engineVars>>

GroundNext == Ground \/ Click \/ RepeatClick \/ Alternative \/ Adjust

GroundSpec == GroundInit /\ [][GroundNext]_vars

\* ---------------------------------------------------------------- claims
\* The step loop has ended.
LoopEnded == pc \in {"loop_end", "final", "done"}

\* The StepRecord appended last.
LastStep == steps[Len(steps)]

\* The bounds of C1: iterations, execution attempts, model round-trips of one
\* iteration (one coarse call and the refinement calls), final checks.
C1_Bounded ==
  /\ step_count <= max_steps
  /\ attempt <= 3
  /\ refine_attempts <= 2
  /\ calls.model <= 1 + refine_attempts
  /\ calls.final = (IF pc = "done" /\ launched THEN 1 ELSE 0)
  /\ (pc = "done" => result.present)
  /\ (pc = "done" /\ launched => result.final_check.present)

\* C1: every run started by execute_test terminates whatever the device and
\* the model do: the step loop runs at most max_steps iterations, an
\* iteration makes at most 3 execution attempts and at most 2 refinement
\* round-trips, then exactly one final check runs and a result is returned.
C1_Terminates == [](C1_Bounded) /\ ((pc # "idle") ~> (pc = "done"))

\* A run that used its whole budget: the last of max_steps iterations made 2
\* refinement round-trips and 3 attempts.
C1_Witness ==
  /\ pc = "loop_end"
  /\ step_count = max_steps
  /\ step_count >= 2
  /\ refine_attempts = 2
  /\ attempt = 3

\* C2: whatever the device and the model do, execute_test returns a result,
\* and the steps of the result of a launched run are the StepRecords that
\* were appended, in order: one for every iteration that began.
C2_ResultKeepsHistory ==
  pc = "done" =>
    /\ result.present
    /\ launched =>
         /\ result.steps = steps
         /\ Len(result.steps) >= step_count
         /\ \A i \in 1..step_count : result.steps[i].step = i

\* A run aborted by a capture failure in its second iteration, with a final
\* check that failed too: the record of the first step is in the result.
C2_Witness ==
  /\ pc = "done"
  /\ launched
  /\ Len(result.steps) = 2
  /\ result.steps[1].success
  /\ result.steps[2].error = "screenshot_failed"
  /\ result.final_check.error = "final_screenshot_failed"

\* C3: the result of a launched run is a success exactly when at least one
\* recorded step succeeded and the final check succeeded.
C3_RunSuccess ==
  pc = "done" /\ launched =>
    (result.success <=>
       /\ \E i \in 1..Len(result.steps) : result.steps[i].success
       /\ result.final_check.success)

\* A successful run one step of which failed.
C3_Witness ==
  /\ pc = "done"
  /\ launched
  /\ result.success
  /\ \E i \in 1..Len(result.steps) : ~result.steps[i].success

\* The record of the current iteration has been appended after an execution.
StepExecuted ==
  /\ action_result # NoAction
  /\ pc \in {"sleep", "loop_end"}
  /\ Len(steps) >= step_count
  /\ steps[step_count].step = step_count
  /\ steps[step_count].action = action_result

\* The timeout record follows the record of the current iteration.
TimeoutRecorded ==
  /\ Len(steps) = step_count + 1
  /\ LastStep.error = "step_timeout"

\* The parts of C4 on the attempts: at most 3 attempts, none after a success,
\* at least one before the step is recorded, and the record tells whether an
\* attempt succeeded.
C4_Attempts ==
  /\ attempt <= 3
  /\ calls.succeeded <= 1
  /\ (pc = "exec" => attempt < 3 /\ calls.succeeded = 0 /\ Len(steps) = step_count - 1)
  /\ (action_result # NoAction /\ pc \in {"sleep", "loop_end"} =>
        /\ StepExecuted
        /\ attempt >= 1
        /\ (steps[step_count].success <=> calls.succeeded = 1)
        /\ (~steps[step_count].success => attempt = 3))

\* All 3 attempts of the current iteration have failed.
AllAttemptsFailed == attempt = 3 /\ calls.succeeded = 0

\* C4 as claimed: the action is executed at least once and at most 3 times,
\* no attempt follows a success, and when all 3 attempts fail the step is
\* recorded as failed and the loop goes on rather than stopping.
C4_Original ==
  /\ C4_Attempts
  /\ (AllAttemptsFailed => StepExecuted /\ ~steps[step_count].success /\ ~LoopEnded)

\* C4 (amended): as claimed, except that after 3 failed attempts the loop
\* stops when the step, inter-step sleep included, took longer than
\* step_timeout: the timeout record is appended and no further step runs.
C4_RetryThenGoOn ==
  /\ C4_Attempts
  /\ (AllAttemptsFailed =>
        /\ StepExecuted
        /\ ~steps[step_count].success
        /\ (LoopEnded => TimeoutRecorded /\ elapsed > StepTimeout))

\* The second iteration runs after a first step whose 3 attempts all raised.
C4_Witness ==
  /\ pc = "analyze"
  /\ step_count = 2
  /\ Len(steps) = 1
  /\ steps[1].action.action_type = "wait"
  /\ ~steps[1].success

\* C5: when the capture of step k fails it is not retried, exactly one failed
\* StepRecord is appended for step k, no model call and no device action
\* happens for step k, and no later iteration runs.
C5_CaptureFailureStops ==
  \A i \in 1..Len(steps) :
    steps[i].error = "screenshot_failed" =>
      /\ i = Len(steps)
      /\ i = step_count
      /\ steps[i].step = step_count
      /\ Cardinality({j \in 1..Len(steps) : steps[j].step = step_count}) = 1
      /\ ~steps[i].success
      /\ steps[i].action = NoAction
      /\ LoopEnded
      /\ (pc = "loop_end" =>
            /\ calls.shots = 1
            /\ calls.model = 0
            /\ calls.device = 0
            /\ attempt = 0
            /\ taps = <<>>)

\* The capture of the second step failed after a first step that succeeded.
C5_Witness ==
  /\ pc = "loop_end"
  /\ Len(steps) = 2
  /\ steps[1].success
  /\ steps[2].error = "screenshot_failed"

\* C6 as claimed: when the model call of step k fails, the loop stops at step
\* k with a failed StepRecord, nothing is executed for the step and no later
\* step runs.  (The analyzer answers a failed model call with the error
\* action.)
C6_AnalysisFailureFatal ==
  /\ (action_result = ErrorAction =>
        /\ LoopEnded
        /\ attempt = 0
        /\ Len(steps) = step_count
        /\ LastStep.step = step_count
        /\ ~LastStep.success)
  /\ \A i \in 1..Len(steps) :
       steps[i].action = ErrorAction => i = Len(steps) /\ steps[i].step = step_count

\* The errors of the StepRecords of a fatal error.
FatalStepErrors == {"screenshot_failed", "llm_analysis_failed", "step_exception"}

\* C7 as claimed: a run in which a fatal error occurred returns success=false
\* and a non-empty error, also when earlier steps of the run succeeded.
C7_FatalErrorReported ==
  (/\ pc = "done"
   /\ launched
   /\ \E i \in 1..Len(result.steps) : result.steps[i].error \in FatalStepErrors)
  => (~result.success /\ result.error # "")

\* The detector returned no element in any of the 3 attempts of the current
\* click step.
NoElementInStep ==
  /\ action_result.action_type = "click"
  /\ Len(detected) = 3
  /\ \A j \in 1..3 : detected[j] = <<>>

\* What C8 says of a click step without elements, the loop apart: no tap, and
\* the step is recorded as failed.
C8_NoTapAndFailed ==
  NoElementInStep =>
    /\ taps = <<>>
    /\ calls.device = 0
    /\ StepExecuted
    /\ ~steps[step_count].success

\* An attempt of a click in which the detector returns no element leaves
\* ClickHistory and ScreenFingerprint unchanged and taps nothing.
C8_EmptyAttempt ==
  (/\ pc = "exec"
   /\ action_result.action_type = "click"
   /\ attempt' = attempt + 1
   /\ detected' = Append(detected, <<>>))
  => /\ taps' = taps
     /\ click_history' = click_history
     /\ last_screenshot_hash' = last_screenshot_hash

\* C8 as claimed: a click step that finds no element in any attempt taps
\* nothing, is recorded as failed, and the loop continues.
C8_Original == C8_NoTapAndFailed /\ (NoElementInStep => ~LoopEnded)

\* C8 (amended): a click step that finds no element in any attempt taps
\* nothing, leaves ClickHistory and ScreenFingerprint unchanged and is
\* recorded as failed; the loop continues, except that it stops with the
\* timeout record when the step, inter-step sleep included, took longer than
\* step_timeout.
C8_NoElementClick ==
  /\ [][C8_EmptyAttempt]_vars
  /\ [](C8_NoTapAndFailed
        /\ (NoElementInStep /\ LoopEnded => TimeoutRecorded /\ elapsed > StepTimeout))

\* The inter-step sleep is reached after a click step that never found an
\* element, with both stores as they were before the run.
C8_Witness ==
  /\ NoElementInStep
  /\ pc = "sleep"
  /\ click_history = <<>>
  /\ last_screenshot_hash = 0

\* C9: the StepRecord of a complete action is appended with success=true and
\* the loop stops there: no later step, no timeout record, and the step loop
\* does not report an error.
C9_CompleteStops ==
  \A i \in 1..Len(steps) :
    steps[i].action.action_type = "complete" =>
      /\ steps[i].success
      /\ i = Len(steps)
      /\ steps[i].step = step_count
      /\ LoopEnded
      /\ (steps_result.present => steps_result.success /\ steps_result.error = "")

\* A complete action in the first of two steps, in an iteration that took
\* longer than step_timeout.
C9_Witness ==
  /\ pc = "loop_end"
  /\ max_steps = 2
  /\ Len(steps) = 1
  /\ steps[1].action.action_type = "complete"
  /\ elapsed > StepTimeout

\* An executed step that is not terminal.
NonTerminal(rec) == rec.action # NoAction /\ rec.action.action_type # "complete"

\* C10: after the record of a non-terminal step k and the inter-step sleep,
\* a step that took longer than step_timeout gets one extra failed timeout
\* record of index k+1 and no further step runs; otherwise there is no
\* timeout record.
C10_Timeout ==
  /\ \A i \in 1..Len(steps) :
       steps[i].error = "step_timeout" =>
         /\ i = Len(steps)
         /\ i >= 2
         /\ steps[i].step = step_count + 1
         /\ steps[i - 1].step = step_count
         /\ NonTerminal(steps[i - 1])
         /\ ~steps[i].success
         /\ LoopEnded
         /\ (pc = "loop_end" => elapsed > StepTimeout)
  /\ (pc \in {"loop", "loop_end"} /\ Len(steps) >= 1 /\ NonTerminal(LastStep) =>
        elapsed <= StepTimeout)

\* The loop stopped on the timeout of its first step.
C10_Witness ==
  /\ pc = "loop_end"
  /\ max_steps = 2
  /\ Len(steps) = 2
  /\ steps[2].error = "step_timeout"
  /\ steps[2].step = 2
  /\ steps[1].success

\* The final check is made in the step that builds the result, and no
\* StepRecord is appended in that step or after it.
C11_AfterLastRecord ==
  /\ (calls'.final # calls.final =>
        /\ pc = "final" /\ pc' = "done"
        /\ calls'.final = calls.final + 1
        /\ steps_result.present
        /\ ~result.present /\ result'.present
        /\ result'.final_check = final_check')
  /\ (steps' # steps => ~final_check.present /\ ~final_check'.present)

\* C11: in every run whose app launched exactly one final check is attempted,
\* after the last StepRecord and before the result is built, however the step
\* loop ended.
C11_OneFinalCheck ==
  /\ [][C11_AfterLastRecord]_vars
  /\ [](/\ (pc = "done" /\ launched =>
              /\ calls.final = 1
              /\ final_check.present
              /\ result.final_check = final_check
              /\ result.steps = steps)
        /\ (pc # "done" \/ ~launched =>
              calls.final = 0 /\ ~final_check.present))

\* The final check of a run whose step loop ended on an exception, with no
\* step that succeeded.
C11_Witness ==
  /\ pc = "done"
  /\ launched
  /\ calls.final = 1
  /\ LastStep.error = "step_exception"
  /\ ~steps_result.success

\* The specification was loaded: load_test_requirement returned True.
Loaded == current_test.loaded /\ current_test.scenario_ok

Interpreted == call.fn = "_parse_action_response" /\ ret.returned

\* The ActionRecord the interpreter returned.
Record == ret.value.value

\* C13 as claimed: the ActionRecord the interpreter returns for a reply is
\* never an input action whose text is missing or empty, on any of its paths.
C13_InputHasText ==
  Interpreted /\ ~ret.value.raised =>
    ~(Get(Record, Key.action_type) = JStr(ActionWord.input) /\ ~Truthy(Get(Record, Key.text)))

\* Keys that hold a position.
position_keys == {Key.x, Key.y}

\* C14 as claimed: the ActionRecord of a reply interpreted as a click carries
\* no positional field; the position fields of the reply are discarded.
C14_ClickHasNoPosition ==
  Interpreted /\ ~ret.value.raised /\ Get(Record, Key.action_type) = JStr(ActionWord.click) =>
    (DOMAIN Record) \cap position_keys = {}

\* C15 as claimed: a JSON object wrapped in code fences, with or without the
\* json tag, is interpreted as the object itself is, also when its strings
\* hold braces or a comma, a space and a brace.
C15_FenceTransparent ==
  (/\ Interpreted
   /\ call.wrapper \in {"fence", "fence_json"}
   /\ call.closing = plain_closing)
  => ret.value = InterpretReply(ObjectText(call.members, plain_closing))

\* C16 as claimed: an object with one trailing comma before its closing brace
\* (at once, after a space, after a newline, after a newline and an
\* indentation) is interpreted as the object without the comma is.
C16_TrailingCommaRecovered ==
  (/\ Interpreted
   /\ call.wrapper = "none"
   /\ call.closing \in TrailingCommaClosings
   /\ Has(InterpretReply(ObjectText(call.members, plain_closing)).value, Key.action_type))
  => ret.value = InterpretReply(ObjectText(call.members, plain_closing))

\* The keywords of the fallback table.
keyword_table ==
  {ActionWord.click, ActionWord.input, Key.type, ActionWord.swipe, ActionWord.scroll, ActionWord.back, ActionWord.complete, ActionWord.finish}

\* No keyword of the table occurs in the text.
NoKeyword(text) == \A k \in keyword_table : ~Contains(k, Lower(text))

\* Neither the text without its fences nor the object extracted from it and
\* repaired parses.
NoStructuredParse(text) ==
  /\ ~JsonLoads(Unfence(text)).ok
  /\ ~JsonLoads(RepairJson(ExtractJson(Unfence(text)))).ok

\* C17: the interpreter returns an ActionRecord for every text and never
\* raises; when no structured parse succeeds and no keyword occurs in the text
\* the record is a wait with success=false and a non-empty reasoning.
C17_NeverRaises ==
  Interpreted =>
    /\ ~ret.value.raised
    /\ Has(Record, Key.description)
    /\ Has(Record, Key.success)
    /\ (NoStructuredParse(call.response) /\ NoKeyword(call.response) =>
          /\ Get(Record, Key.action_type) = JStr(ActionWord.wait)
          /\ Get(Record, Key.success) = JFalse
          /\ IsStr(Get(Record, Key.reasoning))
          /\ Get(Record, Key.reasoning).v # <<>>)

\* The reply is an object without keyword that a trailing comma spoils:
\* json.loads raised in both parses and the fallback answered.
C17_Witness ==
  /\ Interpreted
  /\ call.wrapper = "none"
  /\ call.closing = <<",", "}">>
  /\ NoStructuredParse(call.response)
  /\ NoKeyword(call.response)
  /\ Get(Record, Key.action_type) = JStr(ActionWord.wait)

\* _find_best_matching_element has returned.
Grounded == call.fn = "_find_best_matching_element" /\ ret.returned

\* C18: grounding returns no element exactly when the element list is empty,
\* and for a non-empty list it returns a member of the list.
C18_GroundingTotal ==
  Grounded =>
    /\ (ret.value = NoElement <=> call.elements = <<>>)
    /\ (call.elements # <<>> =>
          \E i \in 1..Len(call.elements) : call.elements[i] = ret.value)

\* Nothing matches the description and the largest element is returned.
C18_Witness ==
  /\ Grounded
  /\ call.description = Sample.none
  /\ call.elements = <<Elem.blank, Elem.screen>>
  /\ ret.value = Elem.screen

\* C19: when an element's text exactly equals the non-empty description, an
\* element with that text is returned, wherever it stands in the list and
\* whatever the other elements are.
C19_ExactMatchWins ==
  (/\ Grounded
   /\ call.description # <<>>
   /\ \E i \in 1..Len(call.elements) :
        call.elements[i].text_content = call.description)
  => ret.value.text_content = call.description

\* _handle_click_action has returned for a target the loop guard lets pass.
Target == FindBestMatchingElement(call.elements, call.description)

ClickedUnguarded ==
  /\ call.fn = "_handle_click_action"
  /\ ret.returned
  /\ LET t == Target
     IN /\ t # NoElement
        /\ ~(\/ IsRepeatClick(call.history, (t.column_min + t.column_max) \div 2,
                              (t.row_min + t.row_max) \div 2)
             \/ IsInterfaceUnchanged(call.last_hash, 1))

IsMidpoint(c, lo, hi) == Abs(2 * c - (lo + hi)) <= 1 /\ lo <= c /\ c <= hi

\* C20: when the loop guard does not intervene, the one point tapped is the
\* integer midpoint of the matched element's box on each axis, within the box
\* and at most half a pixel from the true centre; bounds (900, 2200, 980, 2260)
\* give (940, 2230). The centre Element.from_pixel_bbox computes for the same
\* box meets the same bound.
C20_TapsMidpoint ==
  ClickedUnguarded =>
    LET t == Target
    IN /\ Len(ret.value.taps) = 1
       /\ IsMidpoint(ret.value.taps[1][1], t.column_min, t.column_max)
       /\ IsMidpoint(ret.value.taps[1][2], t.row_min, t.row_max)
       /\ IsMidpoint(RoundedMidpoint(t.column_min, t.column_max),
                     t.column_min, t.column_max)
       /\ IsMidpoint(RoundedMidpoint(t.row_min, t.row_max), t.row_min, t.row_max)
       /\ (SameBounds(t, Elem.search) => ret.value.taps = << <<940, 2230>> >>)

\* A box whose bounds have odd sums is tapped at the floor of its centre.
C20_Witness ==
  /\ ClickedUnguarded
  /\ Target = Elem.ok_odd
  /\ ret.value.taps = << <<940, 2230>> >>

\* Two points are within the tolerance of each other on both axes.
Near(p, q) == Abs(p[1] - q[1]) <= tolerance /\ Abs(p[2] - q[2]) <= tolerance

\* C21: repeat-click detection for a new point is true exactly when the
\* history holds at least 2 points and its 2 most recent points lie within
\* 5 pixels, per axis, of each other and of the new point.
C21_RepeatClickExact ==
  (call.fn = "_is_repeat_click" /\ ret.returned) =>
    (ret.value <=>
       /\ Len(call.history) >= 2
       /\ Near(call.history[Len(call.history) - 1], call.history[Len(call.history)])
       /\ Near(call.history[Len(call.history) - 1], <<call.x, call.y>>)
       /\ Near(call.history[Len(call.history)], <<call.x, call.y>>))

\* The click handler has returned.
Clicked == call.fn = "_handle_click_action" /\ ret.returned

\* The point grounding gives for the call: the floor midpoint of the target.
Grounded_point ==
  LET t == Target
  IN << (t.column_min + t.column_max) \div 2, (t.row_min + t.row_max) \div 2 >>

\* The two clicks recorded last are within the tolerance of each other and
\* of the grounded point.
RepeatedTwice ==
  /\ Len(call.history) >= 2
  /\ Near(call.history[Len(call.history) - 1], call.history[Len(call.history)])
  /\ LET g == Grounded_point
     IN /\ Target # NoElement
        /\ Near(call.history[Len(call.history) - 1], g)
        /\ Near(call.history[Len(call.history)], g)

\* p is the centre of an alternative of maximal score when there is an
\* alternative, and otherwise a point of the target's box at most a quarter
\* of the box, and at most 20 pixels, from the grounded point.
Recovered(p) ==
  LET t == Target
      g == << (t.column_min + t.column_max) \div 2, (t.row_min + t.row_max) \div 2 >>
      n == Len(call.elements)
      eligible == {i \in 1..n : AltEligible(call.elements[i], t)}
      best == {i \in eligible :
                 \A j \in eligible :
                   AltScore(call.elements[j]) <= AltScore(call.elements[i])}
  IN IF eligible # {}
       THEN \E i \in best :
              /\ 2 * p[1] <= call.elements[i].column_min + call.elements[i].column_max
              /\ 2 * p[1] >= call.elements[i].column_min + call.elements[i].column_max - 1
              /\ 2 * p[2] <= call.elements[i].row_min + call.elements[i].row_max
              /\ 2 * p[2] >= call.elements[i].row_min + call.elements[i].row_max - 1
       ELSE /\ Abs(p[1] - g[1]) <= max_offset
            /\ 4 * Abs(p[1] - g[1]) <= t.column_max - t.column_min
            /\ Abs(p[2] - g[2]) <= max_offset
            /\ 4 * Abs(p[2] - g[2]) <= t.row_max - t.row_min
            /\ t.column_min <= p[1] /\ p[1] <= t.column_max
            /\ t.row_min <= p[2] /\ p[2] <= t.row_max

\* C22: when the two clicks recorded last are within 5 pixels of each other
\* and the click grounds to a point within 5 pixels of both, the handler
\* issues one tap only, at the point the recovery gives (the centre of an
\* alternative element, else a jittered point of the target's box).
C22_RecoveryBeforeTap ==
  (Clicked /\ RepeatedTwice) =>
    /\ Len(ret.value.taps) = 1
    /\ Recovered(ret.value.taps[1])

\* The knob alone on the screen is tapped two pixels off its centre.
C22_Witness ==
  /\ Clicked /\ RepeatedTwice
  /\ call.elements = <<Elem.knob>>
  /\ call.history = <<<<500, 500>>, <<502, 498>>>>
  /\ ret.value.taps = << <<503, 499>> >>

\* C23: the fingerprint slot is overwritten on every step, click or not: when
\* the record of an executed step is appended, the slot holds the hash of
\* that step's screenshot, which is what stall detection compares the next
\* step's screenshot with.
C23_FingerprintEveryStep ==
  [][(pc = "exec" /\ Len(steps') = Len(steps) + 1)
       => last_screenshot_hash' = screenshot]_vars

C25_HistoryBounded ==
  Clicked =>
    /\ Len(ret.value.click_history) <= 5
    /\ (ret.value.taps # <<>> /\ Len(call.history) = 5 =>
          ret.value.click_history =
            <<call.history[2], call.history[3], call.history[4], call.history[5],
              ret.value.taps[1]>>)
    /\ (ret.value.taps # <<>> /\ Len(call.history) < 5 =>
          ret.value.click_history = call.history \o ret.value.taps)
    /\ (ret.value.taps = <<>> => ret.value.click_history = call.history)

\* A click on the blank box with five distinct points recorded.
C25_Witness ==
  /\ Clicked
  /\ call.history = <<<<10, 10>>, <<20, 20>>, <<30, 30>>, <<40, 40>>, <<60, 60>>>>
  /\ ret.value.click_history =
       <<<<20, 20>>, <<30, 30>>, <<40, 40>>, <<60, 60>>, <<50, 25>>>>

\* C26: whenever repeat-click detection fires for the grounded point, the
\* point tapped is not within the tolerance of both of the two clicks
\* recorded last, whatever the elements and the jitter.
C26_NoRepeatedTap ==
  (Clicked /\ Len(call.history) >= 2 /\ Target # NoElement
     /\ IsRepeatClick(call.history, Grounded_point[1], Grounded_point[2])) =>
    /\ ret.value.taps # <<>>
    /\ ~(/\ Near(ret.value.taps[1], call.history[Len(call.history) - 1])
         /\ Near(ret.value.taps[1], call.history[Len(call.history)]))

\* C27: at the start of every run, the first included, the click history is
\* empty, the fingerprint slot is unset and the action history is empty.
C27_RunStartsClean ==
  (pc = "loop" /\ step_count = 0) =>
    /\ click_history = <<>>
    /\ last_screenshot_hash = 0
    /\ action_history = <<>>

\* A point lies in the box of an element.
Inside(p, el) ==
  /\ el.column_min <= p[1] /\ p[1] <= el.column_max
  /\ el.row_min <= p[2] /\ p[2] <= el.row_max

\* C28: every tap of the click handler lies in the box of an element of the
\* list detected for the call: the matched element (also when jittered) or
\* an alternative element. The handler is given the description and the
\* screenshot only.
C28_TapInsideElement ==
  (Clicked /\ ret.value.taps # <<>>) =>
    LET t == Target
    IN /\ \E i \in 1..Len(call.elements) : call.elements[i] = t
       /\ \/ Inside(ret.value.taps[1], t)
          \/ \E i \in 1..Len(call.elements) :
               /\ AltEligible(call.elements[i], t)
               /\ Inside(ret.value.taps[1], call.elements[i])

\* The guard moves the tap from the matched element to the blank box.
C28_Witness ==
  /\ Clicked
  /\ call.elements = <<E_SMALL, Elem.blank>>
  /\ Target = E_SMALL
  /\ ret.value.taps = << <<50, 25>> >>

\* The grounding rules for a description d as it is compared: v is the
\* element the rules give.  Candidates of rule (c) are ranked by area, those
\* of equal area in list order; smallestOfFew says which candidate is meant
\* when fewer than three qualify.
BoxArea(el) == (el.column_max - el.column_min) * (el.row_max - el.row_min)

GroundingRules(elements, d, v, smallestOfFew) ==
  LET n == Len(elements)
      txt(i) == Lower(elements[i].text_content)
      A == IF d = <<>> THEN {} ELSE {i \in 1..n : Contains(d, txt(i))}
      intent == \E k \in 1..Len(search_keywords) : Contains(search_keywords[k], d)
      B == {i \in 1..n :
              \E k \in 1..Len(search_keywords) : Contains(search_keywords[k], txt(i))}
      C == {i \in 1..n : BoxArea(elements[i]) < 50000 /\ elements[i].row_min > 1800}
      rank(i) == Cardinality({j \in C :
                   \/ BoxArea(elements[j]) < BoxArea(elements[i])
                   \/ BoxArea(elements[j]) = BoxArea(elements[i]) /\ j < i})
      first(S) == CHOOSE i \in S : \A j \in S : i <= j
  IN IF A # {} THEN v = elements[first(A)]
     ELSE IF intent /\ B # {} THEN v = elements[first(B)]
     ELSE IF intent /\ C # {}
       THEN IF Cardinality(C) >= 3
              THEN \E i \in C : rank(i) = Cardinality(C) \div 2 /\ v = elements[i]
            ELSE IF smallestOfFew
              THEN \E i \in C : rank(i) = 0 /\ v = elements[i]
            ELSE \E i \in C : v = elements[i]
     ELSE \E i \in 1..n :
            /\ v = elements[i]
            /\ \A j \in 1..n : BoxArea(elements[j]) <= BoxArea(elements[i])

MayReplace(i) ==
  /\ <<call.elements[i].column_min, call.elements[i].row_min,
       call.elements[i].column_max, call.elements[i].row_max>>
       # <<call.target.column_min, call.target.row_min,
           call.target.column_max, call.target.row_max>>
  /\ BoxArea(call.elements[i]) <= 500000
  /\ AltScore(call.elements[i]) > 0

\* C30: the alternative search returns an element that may replace the
\* target, of maximal score among those that may, the earliest in the list
\* among equal scores; it returns nothing exactly when none may.
C30_BestAlternative ==
  (call.fn = "_find_alternative_element" /\ ret.returned) =>
    /\ (ret.value = NoElement <=> ~\E i \in 1..Len(call.elements) : MayReplace(i))
    /\ (ret.value # NoElement =>
          \E i \in 1..Len(call.elements) :
            /\ ret.value = call.elements[i]
            /\ MayReplace(i)
            /\ \A j \in 1..Len(call.elements) :
                 MayReplace(j) =>
                   /\ AltScore(call.elements[j]) <= AltScore(call.elements[i])
                   /\ (AltScore(call.elements[j]) = AltScore(call.elements[i])
                         => call.elements[j] = call.elements[i] \/ i < j))

\* Two elements of equal score: the first of the list is returned.
C30_Witness ==
  /\ call.fn = "_find_alternative_element" /\ ret.returned
  /\ call.elements = <<Elem.blank, Elem.ok_now>>
  /\ call.target = E_SMALL
  /\ AltScore(Elem.blank) = AltScore(Elem.ok_now)
  /\ ret.value = Elem.blank

\* _adjust_coordinates has returned.
Adjusted == call.fn = "_adjust_coordinates" /\ ret.returned

\* The click handler tapped a point that is the centre neither of the
\* target nor of any element of the list: the point was jittered.
TappedOffCentre ==
  /\ Clicked
  /\ ret.value.taps # <<>>
  /\ \A i \in 1..Len(call.elements) :
       ret.value.taps[1] #
         << (call.elements[i].column_min + call.elements[i].column_max) \div 2,
            (call.elements[i].row_min + call.elements[i].row_max) \div 2 >>

\* C31: for every target and every random draw, the jittered point is at
\* most min(width/4, 20) from the target's centre on x and min(height/4, 20)
\* on y and lies in the target's box; and the click handler jitters only
\* when the alternative search found no element.
C31_JitterBounded ==
  /\ Adjusted =>
       LET t == call.target
           dx == Abs(ret.value[1] - call.x)
           dy == Abs(ret.value[2] - call.y)
       IN /\ 4 * dx <= t.column_max - t.column_min /\ dx <= 20
          /\ 4 * dy <= t.row_max - t.row_min /\ dy <= 20
          /\ Inside(ret.value, t)
  /\ TappedOffCentre =>
       LET t == Target
       IN \A i \in 1..Len(call.elements) : ~AltEligible(call.elements[i], t)

\* The whole screen is jittered by the cap on both axes.
C31_Witness ==
  /\ Adjusted
  /\ call.target = Elem.screen
  /\ ret.value = <<560, 1150>>

\* Refinement round-trip i of the step gave a reply that was adopted.
AdoptedAt(i) ==
  /\ ~calls.refined[i].raised
  /\ calls.refined[i].action.action_type = "click"

\* C32: in a step the analyzer makes at most 2 refinement round-trips, none
\* when the action of the coarse reply is not click and none after a refined
\* reply was adopted; every round-trip, also one that raises, is one of the
\* attempts counted.
C32_RefinementBounded ==
  /\ Len(calls.refined) <= 2
  /\ refine_attempts = Len(calls.refined)
  /\ calls.model <= 1 + Len(calls.refined)
  /\ (calls.refined # <<>> => calls.coarse.action_type = "click")
  /\ \A i \in 1..(Len(calls.refined) - 1) : ~AdoptedAt(i)

\* The first refinement call raised, the second was made and its reply was
\* not adopted: the loop ended after two attempts.
C32_Witness ==
  /\ pc = "exec"
  /\ Len(calls.refined) = 2
  /\ calls.refined[1].raised
  /\ ~calls.refined[2].raised
  /\ ~AdoptedAt(2)

\* The entries of the action history that log a refinement attempt of the
\* current step.
LoggedAttempts ==
  Cardinality({i \in 1..Len(action_history) :
                 /\ action_history[i].phase = "refine_attempt"
                 /\ action_history[i].step = current_step})

\* A refined reply that parsed to a click with a non-empty description.
DescribedClick(reply) ==
  ~reply.raised /\ reply.action.action_type = "click" /\ reply.action.description # <<>>

\* C33: when the analyzer has returned from a refinement, its action is the
\* last refined reply exactly when that reply parsed to a click with a
\* non-empty description, and is the coarse action otherwise; each reply
\* that was not such a click was logged into the action history.
C33_AdoptedWhenDescribed ==
  (pc = "exec" /\ attempt = 0 /\ calls.refined # <<>>) =>
    LET last == calls.refined[Len(calls.refined)]
    IN /\ action_result = (IF DescribedClick(last) THEN last.action ELSE calls.coarse)
       /\ LoggedAttempts =
            Cardinality({i \in 1..Len(calls.refined) :
                           ~calls.refined[i].raised /\ ~DescribedClick(calls.refined[i])})

\* The action types of an ActionRecord.
action_types ==
  {ActionWord.click, ActionWord.input, ActionWord.swipe, ActionWord.back,
   <<"h", "o", "m", "e">>, ActionWord.wait, ActionWord.complete,
   <<"e", "r", "r", "o", "r">>}

\* C34: every ActionRecord the interpreter returns has a description, a
\* success and an action type that is one of click, input, swipe, back, home,
\* wait, complete and error, also when the object of the reply has none of
\* the keys action_type, action and type.
C34_RecordWellFormed ==
  Interpreted =>
    /\ Has(Record, Key.description)
    /\ Has(Record, Key.success)
    /\ Has(Record, Key.action_type)
    /\ IsStr(Get(Record, Key.action_type))
    /\ Get(Record, Key.action_type).v \in action_types

\* The keyword classes of the fallback in their order, each with the action
\* type it stands for.
keyword_classes ==
  << [words |-> {ActionWord.click}, action_type |-> ActionWord.click],
     [words |-> {ActionWord.input, Key.type}, action_type |-> ActionWord.input],
     [words |-> {ActionWord.swipe, ActionWord.scroll}, action_type |-> ActionWord.swipe],
     [words |-> {ActionWord.back}, action_type |-> ActionWord.back],
     [words |-> {ActionWord.complete, ActionWord.finish},
      action_type |-> ActionWord.complete] >>

\* A word of keyword class i occurs in the text, whatever its case.
ClassOccurs(i, text) == \E w \in keyword_classes[i].words : Contains(w, Lower(text))

\* C35: when no structured parse succeeds, the record has the action type of
\* the first keyword class, in the order click, input/type, swipe/scroll,
\* back, complete/finish, of which a word occurs in the text, wait when none
\* occurs, and has success=false.
C35_FirstKeywordClass ==
  (Interpreted /\ NoStructuredParse(call.response)) =>
    /\ Get(Record, Key.success) = JFalse
    /\ \A i \in 1..Len(keyword_classes) :
         (ClassOccurs(i, call.response)
            /\ \A j \in 1..(i - 1) : ~ClassOccurs(j, call.response))
           => Get(Record, Key.action_type) = JStr(keyword_classes[i].action_type)
    /\ ((\A i \in 1..Len(keyword_classes) : ~ClassOccurs(i, call.response))
          => Get(Record, Key.action_type) = JStr(ActionWord.wait))

\* An object that a trailing comma spoils holds the words click and type:
\* the class of click comes first.
C35_Witness ==
  /\ Interpreted
  /\ NoStructuredParse(call.response)
  /\ ClassOccurs(1, call.response)
  /\ ClassOccurs(2, call.response)
  /\ Record[Key.action_type] = JStr(ActionWord.click)
  /\ Record[Key.success] = JFalse

\* C36: the run log is append-only: the records have the indices 1, 2, ...,
\* n in order, one record for each; n is at most max_steps + 1 and the
\* record beyond max_steps is a timeout record; a step of the engine leaves
\* the records already appended as they are.
C36_AppendOnly ==
  /\ [](\A i \in 1..Len(steps) : steps[i].step = i)
  /\ [](Len(steps) <= max_steps + 1)
  /\ [](Len(steps) = max_steps + 1 => steps[Len(steps)].error = "step_timeout")
  /\ [][Len(steps') >= Len(steps) /\ SubSeq(steps', 1, Len(steps)) = steps]_vars

\* The last of two iterations timed out: the log has three records.
C36_Witness ==
  /\ max_steps = 2
  /\ Len(steps) = 3
  /\ steps[2].error # "step_timeout"
  /\ steps[3].error = "step_timeout"

\* C37: when no test specification is loaded, the application identity is
\* incomplete or the launch failed, execute_test returns success=false with
\* an error, no steps and no final check, and the step loop did nothing: no
\* iteration began, no model reply and no click was recorded, no final
\* check was made.
C37_NoRunWithoutLaunch ==
  (pc = "done" /\ (~current_test.loaded \/ ~current_test.app_ok \/ ~launched)) =>
    /\ result.present
    /\ ~result.success
    /\ result.error # ""
    /\ result.steps = <<>>
    /\ ~result.final_check.present
    /\ step_count = 0
    /\ ~steps_result.present
    /\ ~final_check.present
    /\ action_history = <<>>
    /\ click_history = <<>>
    /\ last_screenshot_hash = 0

\* A specification without the application identity was loaded and the
\* run ended at once.
C37_Witness ==
  /\ pc = "done"
  /\ current_test.loaded
  /\ ~current_test.app_ok
  /\ result.error = "launch_failed"

\* C38: at every step of a run the current-step number the analyzer gives
\* to the model, the length of its action history plus 1, is the step index
\* of the step loop.
C38_StepNumberAgrees ==
  (pc \in {"refine", "exec"}) => current_step = step_count

\* An attempt of a click is made in this step of the engine.
ClickAttempt ==
  pc = "exec" /\ action_result.action_type = "click" /\ attempt' = attempt + 1

\* The point p is what the recovery gives for the elements detected: the
\* centre of the alternative element, or else a point of the target's box
\* within the jitter of its centre.
RecoveryPoint(p, elements, description) ==
  LET t == FindBestMatchingElement(elements, description)
      alt == FindAlternativeElement(elements, t)
  IN IF alt # NoElement
       THEN p = << (alt.column_min + alt.column_max) \div 2,
                   (alt.row_min + alt.row_max) \div 2 >>
       ELSE /\ Inside(p, t)
            /\ 4 * Abs(2 * p[1] - (t.column_min + t.column_max)) <=
                 2 * (t.column_max - t.column_min) + 4
            /\ 4 * Abs(2 * p[2] - (t.row_min + t.row_max)) <=
                 2 * (t.row_max - t.row_min) + 4

IsFallbackWait(action) ==
  /\ action.action_type = "wait"
  /\ ~action.success
  /\ action.description = fallback_description

\* C40: the success of a StepRecord is the outcome of the execution with
\* retry, whatever the success field of its ActionRecord: the step of the
\* wait action that an unparseable reply without keyword yields is recorded
\* as successful, and a log with that record makes the step loop succeed.
C40_StepSuccessIsExecution ==
  /\ [][(pc = "exec" /\ Len(steps') = Len(steps) + 1) =>
          /\ steps'[Len(steps')].success = (calls'.succeeded > 0)
          /\ steps'[Len(steps')].action = action_result]_vars
  /\ [](\A i \in 1..Len(steps) :
          IsFallbackWait(steps[i].action) =>
            /\ steps[i].success
            /\ (steps_result.present => steps_result.success))

\* The only step of the run is the wait of an unparseable reply, and the
\* step loop succeeded.
C40_Witness ==
  /\ steps_result.present
  /\ steps_result.success
  /\ Len(steps) = 1
  /\ IsFallbackWait(steps[1].action)

====
